---- MODULE Spec2Model ----
(***************************************************************************)
(* A model of the neko agent engine: the step-indexed run loop of          *)
(* ToolCallingAgent and CodeAgent, the Memory history, tool dispatch       *)
(* (including agents nested as tools) and the code executors.              *)
(*                                                                         *)
(* Go strings are TLA+ strings.  A Go any value is a string, with NIL      *)
(* standing for the nil interface.  A Go error is a record Err(msg) or     *)
(* NoErr (nil).  Timing fields are left out: no behaviour depends on them. *)
(***************************************************************************)
EXTENDS Integers, Sequences, FiniteSets, TLC

\* ---------------------------------------------------------------- bounds
\* The largest MaxSteps option a caller passes to Run.
MaxStepsBound == 2
\* The largest number of tool calls in one model response.
MaxBatch == 2
\* The number of goroutines that call Run on the same agent (SpecConc).
NumGoroutines == 2
\* The maxSteps the nested agent was configured with (WithAgentMaxSteps).
NestedMaxSteps == 1

\* ---------------------------------------------------------------- values
NIL == "<nil>"
\* A key that is not in an Arguments map.
ABSENT == "<absent>"

NoErr == [isErr |-> FALSE, msg |-> ""]
Err(msg) == [isErr |-> TRUE, msg |-> msg]

NoUsage == [present |-> FALSE, InputTokens |-> 0, OutputTokens |-> 0]
Usage(i, o) == [present |-> TRUE, InputTokens |-> i, OutputTokens |-> o]

\* fmt.Sprintf("%v", v) of an any value: nil prints as <nil>.
FmtV(v) == IF v = NIL THEN "<nil>" ELSE v

\* strings.Join(elems, sep)
RECURSIVE Join(_, _)
Join(elems, sep) ==
    IF Len(elems) = 0 THEN ""
    ELSE IF Len(elems) = 1 THEN elems[1]
    ELSE elems[1] \o sep \o Join(Tail(elems), sep)

\* strings.HasPrefix(s, prefix)
HasPrefix(s, prefix) ==
    /\ Len(s) >= Len(prefix)
    /\ SubSeq(s, 1, Len(prefix)) = prefix

\* strings.Index(s, sub) >= 0, searched from position i.
RECURSIVE ContainsFrom(_, _, _)
ContainsFrom(s, sub, i) ==
    IF i + Len(sub) - 1 > Len(s) THEN FALSE
    ELSE IF SubSeq(s, i, i + Len(sub) - 1) = sub THEN TRUE
    ELSE ContainsFrom(s, sub, i + 1)

\* strings.Contains(s, sub)
Contains(s, sub) == ContainsFrom(s, sub, 1)

\* ----------------------------------------------------------------- steps
Msg(role, content) == [Role |-> role, Content |-> content]

TaskStep(task) == [type |-> "task", Task |-> task]

\* An Action step that does not take the loop's step number.
NewActionStepUnnumbered(n) ==
    [type |-> "action", StepNumber |-> 0, ModelOutput |-> "",
     CodeAction |-> "", ToolCalls |-> <<>>, Observations |-> "",
     Error |-> NoErr, TokenUsage |-> NoUsage, IsFinal |-> FALSE]

NewActionStep(n) ==
    [type |-> "action", StepNumber |-> n, ModelOutput |-> "",
     CodeAction |-> "", ToolCalls |-> <<>>, Observations |-> "",
     Error |-> NoErr, TokenUsage |-> NoUsage, IsFinal |-> FALSE]

FinalAnswerStep(out) == [type |-> "final_answer", Output |-> out]

PlanningStep(plan, usage) ==
    [type |-> "planning", Plan |-> plan, TokenUsage |-> usage]

ToolCall(name, args) == [Name |-> name, Arguments |-> args]
Args(answer, expression, task) ==
    [answer |-> answer, expression |-> expression, task |-> task]

\* json.Marshal of one call of formatToolCalls, as a flat text.
FormatCall(tc) ==
    "{" \o tc.Name \o ":" \o tc.Arguments.answer \o ","
        \o tc.Arguments.expression \o "," \o tc.Arguments.task \o "}"

FormatToolCalls(tcs) ==
    "Calling tools:\n" \o Join([i \in 1..Len(tcs) |-> FormatCall(tcs[i])], ",")

\* A rendering that puts the error message before the observation.
ActionToMessagesErrorFirst(s) ==
    (IF s.ModelOutput # "" THEN <<Msg("assistant", s.ModelOutput)>> ELSE <<>>)
    \o (IF Len(s.ToolCalls) > 0
        THEN <<Msg("assistant", FormatToolCalls(s.ToolCalls))>> ELSE <<>>)
    \o (IF s.Error.isErr
        THEN <<Msg("user", "Error:\n" \o s.Error.msg
                           \o "\nPlease try again or use another approach.")>>
        ELSE <<>>)
    \o (IF s.Observations # ""
        THEN <<Msg("user", "Observation:\n" \o s.Observations)>> ELSE <<>>)

ActionToMessages(s) ==
    (IF s.ModelOutput # "" THEN <<Msg("assistant", s.ModelOutput)>> ELSE <<>>)
    \o (IF Len(s.ToolCalls) > 0
        THEN <<Msg("assistant", FormatToolCalls(s.ToolCalls))>> ELSE <<>>)
    \o (IF s.Observations # ""
        THEN <<Msg("user", "Observation:\n" \o s.Observations)>> ELSE <<>>)
    \o (IF s.Error.isErr
        THEN <<Msg("user", "Error:\n" \o s.Error.msg
                           \o "\nPlease try again or use another approach.")>>
        ELSE <<>>)

StepToMessages(s) ==
    CASE s.type = "task" -> <<Msg("user", "Task:\n" \o s.Task)>>
      [] s.type = "action" -> ActionToMessages(s)
      [] s.type = "planning" ->
            <<Msg("assistant", s.Plan),
              Msg("user", "Now proceed and carry out this plan.")>>
      [] s.type = "final_answer" -> <<>>

\* ---------------------------------------------------------------- memory
NewMemory(prompt) == [SystemPrompt |-> prompt, Steps |-> <<>>]

\* Reset that keeps the steps.
MemResetKeeps(m) == m

\* Reset that builds a fresh Memory, losing the system prompt.
MemResetLosesPrompt(m) == [SystemPrompt |-> "", Steps |-> <<>>]

MemReset(m) == [m EXCEPT !.Steps = <<>>]

\* An AddStep that puts the new step in front of the others.
AddStepInFront(m, step) == [m EXCEPT !.Steps = <<step>> \o @]

AddStep(m, step) == [m EXCEPT !.Steps = Append(@, step)]

RECURSIVE RenderSteps(_)
RenderSteps(steps) ==
    IF Len(steps) = 0 THEN <<>>
    ELSE StepToMessages(Head(steps)) \o RenderSteps(Tail(steps))

\* A rendering without the system message.
ToMessagesNoSystem(m) == RenderSteps(m.Steps)

ToMessages(m) == <<Msg("system", m.SystemPrompt)>> \o RenderSteps(m.Steps)

\* A total that leaves the Planning steps out.
RECURSIVE SumTokensActionsOnly(_)
SumTokensActionsOnly(steps) ==
    IF Len(steps) = 0 THEN [InputTokens |-> 0, OutputTokens |-> 0]
    ELSE LET s == Head(steps)
             rest == SumTokensActionsOnly(Tail(steps))
         IN IF s.type = "action" /\ s.TokenUsage.present
            THEN [InputTokens |-> rest.InputTokens + s.TokenUsage.InputTokens,
                  OutputTokens |-> rest.OutputTokens + s.TokenUsage.OutputTokens]
            ELSE rest

RECURSIVE SumTokens(_)
SumTokens(steps) ==
    IF Len(steps) = 0 THEN [InputTokens |-> 0, OutputTokens |-> 0]
    ELSE LET s == Head(steps)
             rest == SumTokens(Tail(steps))
         IN IF s.type \in {"action", "planning"} /\ s.TokenUsage.present
            THEN [InputTokens |-> rest.InputTokens + s.TokenUsage.InputTokens,
                  OutputTokens |-> rest.OutputTokens + s.TokenUsage.OutputTokens]
            ELSE rest

TotalTokens(m) == SumTokens(m.Steps)

\* ----------------------------------------------------------------- tools
\* FinalAnswerTool.Execute
FinalAnswerExecute(args) ==
    IF args.answer = ABSENT
    THEN [result |-> NIL, err |-> Err("missing required argument: answer")]
    ELSE [result |-> args.answer, err |-> NoErr]

\* evalExpr on the two expressions the modelled model ever sends.
EvalExpr(expr) ==
    IF expr = "1+1" THEN [result |-> "2", err |-> NoErr]
    ELSE IF expr = "1/0" THEN [result |-> "0", err |-> Err("division by zero")]
    ELSE [result |-> "0", err |-> Err("unsupported expression")]

\* CalculatorTool.Execute
CalculatorExecute(args) ==
    IF args.expression = ABSENT \/ args.expression = ""
    THEN [result |-> NIL, err |-> Err("expression is required")]
    ELSE LET r == EvalExpr(args.expression)
         IN IF r.err.isErr
            THEN [result |-> NIL, err |-> Err("failed to evaluate: " \o r.err.msg)]
            ELSE [result |-> r.result, err |-> NoErr]

\* FuncTool.Execute: t.fn(args), for a user function that reports its call.
FuncToolExecute(args) == [result |-> "fn called", err |-> NoErr]

\* Tool.Execute, by the dynamic type of the registered tool.
ToolExecute(kind, args) ==
    IF kind = "FinalAnswerTool" THEN FinalAnswerExecute(args)
    ELSE IF kind = "FuncTool" THEN FuncToolExecute(args)
    ELSE CalculatorExecute(args)

\* A Register that keeps the tool already stored under the name.
RegisterKeepsFirst(reg, name, kind) ==
    [n \in DOMAIN reg \cup {name} |-> IF n \in DOMAIN reg THEN reg[n] ELSE kind]

\* ToolRegistry.Register: r.tools[tool.Name()] = tool
Register(reg, name, kind) ==
    [n \in DOMAIN reg \cup {name} |-> IF n = name THEN kind ELSE reg[n]]

\* NewToolRegistry: an empty map.
NewToolRegistry == <<>>

\* ToolRegistry.Get: t, ok := r.tools[name]
Get(reg, name) ==
    IF name \in DOMAIN reg THEN [tool |-> reg[name], ok |-> TRUE]
    ELSE [tool |-> NIL, ok |-> FALSE]

\* ToolRegistry.All: the map itself.
All(reg) == reg

\* The orders in which a range over a map with keys S may visit them.
RECURSIVE Orders(_)
Orders(S) ==
    IF S = {} THEN {<<>>}
    ELSE UNION {{<<n>> \o rest : rest \in Orders(S \ {n})} : n \in S}

\* ToolRegistry.Names: the keys, appended in the order the range yields them.
Names(reg) == Orders(DOMAIN reg)

\* NewToolRegistry, the built-in final_answer, then WithToolList(calculator).
\* An agent that manages B is also given a user tool named "B".
NewAgentTools ==
    Register(Register(NewToolRegistry, "final_answer", "FinalAnswerTool"),
             "calculator", "CalculatorTool")

\* ------------------------------------------------------------- callbacks
\* NewCallbackRegistry: an empty map from step type to handlers.
NewCallbackRegistry == <<>>

\* CallbackRegistry.Register:
\* r.callbacks[stepType] = append(r.callbacks[stepType], fn)
RegisterCallback(reg, stepType, fn) ==
    [ty \in DOMAIN reg \cup {stepType} |->
        IF ty = stepType
        THEN Append(IF ty \in DOMAIN reg THEN reg[ty] ELSE <<>>, fn)
        ELSE reg[ty]]

\* CallbackRegistry.Trigger: the handlers of the step's type, then of "all";
\* the result is the list of handler invocations <<handler, step number>>.
Trigger(reg, step) ==
    LET typed == IF step.type \in DOMAIN reg THEN reg[step.type] ELSE <<>>
        all == IF "all" \in DOMAIN reg THEN reg["all"] ELSE <<>>
        hs == typed \o all
    IN [k \in 1..Len(hs) |-> <<hs[k], step.StepNumber>>]

\* ------------------------------------------------------- code extraction
IsSpace(c) == c \in {" ", "\n", "\t", "\r"}

\* strings.TrimSpace
RECURSIVE TrimLeft(_)
TrimLeft(s) ==
    IF Len(s) > 0 /\ IsSpace(SubSeq(s, 1, 1)) THEN TrimLeft(SubSeq(s, 2, Len(s)))
    ELSE s

RECURSIVE TrimRight(_)
TrimRight(s) ==
    IF Len(s) > 0 /\ IsSpace(SubSeq(s, Len(s), Len(s)))
    THEN TrimRight(SubSeq(s, 1, Len(s) - 1))
    ELSE s

TrimSpace(s) == TrimRight(TrimLeft(s))

\* strings.Index(s, sub) searched from position i (1-based); 0 when absent.
RECURSIVE IndexFrom(_, _, _)
IndexFrom(s, sub, i) ==
    IF i + Len(sub) - 1 > Len(s) THEN 0
    ELSE IF SubSeq(s, i, i + Len(sub) - 1) = sub THEN i
    ELSE IndexFrom(s, sub, i + 1)

\* Whether sub stands in s at position i.
At(s, i, sub) ==
    /\ i + Len(sub) - 1 <= Len(s)
    /\ SubSeq(s, i, i + Len(sub) - 1) = sub

\* The text a lazy (.*?) captures from position i up to the first close
\* or, when there is none, up to the end of the text.
LazyUpTo(s, i, close) ==
    LET j == IndexFrom(s, close, i)
    IN IF j = 0 THEN SubSeq(s, i, Len(s)) ELSE SubSeq(s, i, j - 1)

\* (?s)<code>(.*?)(?:</code>|$): [found, group 1]
MatchCodeTag(text) ==
    LET i == IndexFrom(text, "<code>", 1)
    IN IF i = 0 THEN [found |-> FALSE, group |-> ""]
       ELSE [found |-> TRUE, group |-> LazyUpTo(text, i + 6, "</code>")]

\* The markdown fence of three backquotes, written ~~~ here (a backquote
\* cannot be written in a TLA+ string).
FENCE == "~~~"

\* (?s)FENCE(?:python|py)?\n?(.*?)(?:FENCE|$): [found, group 1]
MatchFence(text) ==
    LET i == IndexFrom(text, FENCE, 1)
        a == i + 3
        b == IF At(text, a, "python") THEN a + 6
             ELSE IF At(text, a, "py") THEN a + 2
             ELSE a
        c == IF At(text, b, "\n") THEN b + 1 ELSE b
    IN IF i = 0 THEN [found |-> FALSE, group |-> ""]
       ELSE [found |-> TRUE, group |-> LazyUpTo(text, c, FENCE)]

\* An extraction that tries the fenced pattern first.
parseCodeBlockFenceFirst(text) ==
    LET m1 == MatchCodeTag(text)
        m2 == MatchFence(text)
    IN IF m2.found /\ TrimSpace(m2.group) # "" THEN TrimSpace(m2.group)
       ELSE IF m1.found /\ TrimSpace(m1.group) # "" THEN TrimSpace(m1.group)
       ELSE ""

parseCodeBlock(text) ==
    LET m1 == MatchCodeTag(text)
        m2 == MatchFence(text)
    IN IF m1.found /\ TrimSpace(m1.group) # "" THEN TrimSpace(m1.group)
       ELSE IF m2.found /\ TrimSpace(m2.group) # "" THEN TrimSpace(m2.group)
       ELSE ""

isFinalAnswer(code) == Contains(code, "final_answer(")

\* ------------------------------------------------------------ the agents
\* A is the agent the callers run; B is an agent A manages (tool variant).
Agents == {"A", "B"}
Threads == 1..NumGoroutines

VARIABLES
    variant,        \* agent -> "tool" (ToolCallingAgent) or "code" (CodeAgent)
    managedAgents,  \* agent -> the names (= agents) of its managedAgents map
    tools,          \* agent -> its ToolRegistry: name -> tool type
    callbacks,      \* agent -> its CallbackRegistry: step type -> handlers
    maxSteps,       \* agent -> BaseAgent.maxSteps
    model,          \* agent -> which Model it was given (see Answers)
    callers,        \* the goroutines that call Run on A
    memory,         \* agent -> its Memory
    mu,             \* agent -> whether BaseAgent.mu is locked
    execState,      \* agent -> the map CodeAgent.execState refers to: which
                    \* map it is (id) and the keys it holds
    stack,          \* goroutine -> its active Run calls, innermost last
    cancelled,      \* goroutine -> whether the ctx it passed is cancelled
    cancelPoint,    \* goroutine -> where its Run call stood when that happened
    ret,            \* goroutine -> what its Run call returned
    writer          \* agent -> per step of memory, the goroutine that added it

\* One call of a CodeExecutor's Execute, with the child process it starts.
VARIABLES
    executor,       \* "python" (PythonExecutor) or "docker" (DockerExecutor)
    userCode,       \* the user code given to Execute: a sequence of statements
    startable,      \* whether the command of exec.Command can be started
    epc,            \* Execute: "idle", "select", "returned" or "panicked"
    runner,         \* the goroutine of done <- cmd.Run(): "none", "spawned",
                    \* "waiting" (in cmd.Run), "sending" (at done <-), "sent"
    cmdProcess,     \* whether cmd.Process is set (it is nil before Start)
    child,          \* the child: "none", "running", "exit0", "exit1", "killed"
    ip,             \* child: the statement of the user code it is at
    finalAnswer,    \* child: the wrapper's global __final_answer__
    stdout,         \* the buffer behind cmd.Stdout
    stderr,         \* the buffer behind cmd.Stderr
    runErr,         \* the error cmd.Run returned, offered on done
    timer,          \* the channel of time.After: "none", "armed", "fired"
    via,            \* the case select took: "none", "done" or "timeout"
    out             \* what Execute returned: [output, logs, err]

\* A client of the library calling its functions one at a time.
VARIABLES
    modelText,      \* the model output handed to parseCodeBlock
    mem,            \* a Memory the client owns
    registry,       \* a ToolRegistry (name -> tool) or a CallbackRegistry
                    \* (step type -> handlers) the client owns
    regLog,         \* the Register calls made on it, in order
    lastOp,         \* the client's last call and what it returned
    prevOp          \* the call before it

config == <<variant, managedAgents, tools, callbacks, maxSteps, model, callers>>
agentVars == <<variant, managedAgents, tools, callbacks, maxSteps, model, callers,
               memory, mu, execState, stack, cancelled, cancelPoint, ret, writer>>
execVars == <<executor, userCode, startable, epc, runner, cmdProcess, child, ip,
              finalAnswer, stdout, stderr, runErr, timer, via, out>>
libVars == <<modelText, mem, registry, regLog, lastOp, prevOp>>
vars == <<agentVars, execVars, libVars>>

\* --------------------------------------------------- what the model says
FinalCall(answer) == ToolCall("final_answer", Args(answer, ABSENT, ABSENT))
CalcCall(expr) == ToolCall("calculator", Args(ABSENT, expr, ABSENT))
UnknownCall == ToolCall("nope", Args(ABSENT, ABSENT, ABSENT))
NestedCall == ToolCall("B", Args(ABSENT, ABSENT, "sub"))

ToolCallKinds ==
    {FinalCall("a"), FinalCall(NIL), FinalCall(ABSENT),
     CalcCall("1+1"), CalcCall("1/0"), UnknownCall, NestedCall}

Batches == UNION {[1..n -> ToolCallKinds] : n \in 0..MaxBatch}

GenerateFails ==
    [fail |-> TRUE, Content |-> "", ToolCalls |-> <<>>, TokenUsage |-> NoUsage]
Response(content, tcs, usage) ==
    [fail |-> FALSE, Content |-> content, ToolCalls |-> tcs, TokenUsage |-> usage]

\* A response without text and usage carries no call or one final_answer.
ToolResponses ==
    {GenerateFails, Response("", <<>>, NoUsage),
     Response("", <<FinalCall("a")>>, NoUsage)}
    \cup {Response("thought", b, Usage(3, 5)) : b \in Batches}

CodeTexts ==
    {"I cannot write code.",
     "<code>print(1)</code>",
     "Thought: done. <code>\nfinal_answer(42)\n",
     "<code> </code> ~~~py\nfinal_answer(42)\n~~~"}

CodeResponses ==
    {GenerateFails} \cup {Response(c, <<>>, Usage(3, 5)) : c \in CodeTexts}

\* Model stubs with few answers, for runs that race each other.
SmallCodeResponses ==
    {Response("<code>final_answer(42)</code>", <<>>, Usage(3, 5))}

NestedResponses ==
    {Response("sub thought", <<>>, Usage(1, 1)),
     Response("", <<FinalCall("b")>>, Usage(1, 1))}

SmallResponses ==
    {GenerateFails, Response("thought", <<CalcCall("1+1")>>, Usage(3, 5)),
     Response("", <<FinalCall("a")>>, NoUsage)}

\* The call with which B's model asks for agent A.
BackCall == ToolCall("A", Args(ABSENT, ABSENT, "back"))

\* Models of two agents that manage each other: A's asks for B, calls the
\* calculator or answers; B's thinks, answers or asks for A.
CycleResponses ==
    {Response("", <<NestedCall>>, NoUsage),
     Response("thought", <<CalcCall("1+1")>>, Usage(3, 5)),
     Response("", <<FinalCall("a")>>, NoUsage)}

BackResponses == NestedResponses \cup {Response("", <<BackCall>>, Usage(1, 1))}

\* What Generate of each Model may return.
Answers(m) ==
    CASE m = "ToolModel" -> ToolResponses
      [] m = "CodeModel" -> CodeResponses
      [] m = "NestedModel" -> NestedResponses
      [] m = "SmallModel" -> SmallResponses
      [] m = "SmallCodeModel" -> SmallCodeResponses
      [] m = "CycleModel" -> CycleResponses
      [] m = "BackModel" -> BackResponses

\* What a CodeExecutor may return for a piece of code: (output, logs, err).
ExecOutcomes ==
    {[output |-> "42", logs |-> "Final Answer: 42", err |-> NoErr],
     [output |-> NIL, logs |-> "1\n", err |-> NoErr],
     [output |-> NIL, logs |-> "", err |-> Err("execution timeout after 30s")],
     [output |-> NIL, logs |-> "1\n", err |-> Err("exit status 1: Traceback")]}

\* ---------------------------------------------------------------- frames
NilResult ==
    [isNil |-> TRUE, Output |-> NIL, State |-> "", Steps |-> <<>>,
     TokenUsage |-> [InputTokens |-> 0, OutputTokens |-> 0]]

NoCallRet == [result |-> NilResult, err |-> NoErr]

\* One activation of Run: its options, its locals and where it stands.
\* genLog, execLog and fired record the calls the run has made: the messages
\* and outcome of each Generate call, each executeTool or Execute call with what it
\* returned, and each callback invocation; stateLog records the map each
\* Execute call was given.
NewFrame(a, n, reset, task, ctx) ==
    [agent |-> a, pc |-> "lock", MaxSteps |-> n, Reset |-> reset,
     task |-> task, ctx |-> ctx, step |-> 0, finalOutput |-> NIL,
     state |-> "", actionStep |-> NewActionStep(0), i |-> 0,
     observations |-> <<>>, callRet |-> NoCallRet,
     genLog |-> <<>>, execLog |-> <<>>, fired |-> <<>>, opts |-> <<>>,
     stateLog |-> <<>>]

\* The functional options of Run.
WithMaxSteps(n) == [set |-> "MaxSteps", n |-> n, reset |-> TRUE]
WithReset(reset) == [set |-> "Reset", n |-> 0, reset |-> reset]

\* Options that start from Reset: false.
DefaultOptionsKeep(a) == [MaxSteps |-> maxSteps[a], Reset |-> FALSE]

\* options := &RunOptions{MaxSteps: a.maxSteps, Reset: true}
DefaultOptions(a) == [MaxSteps |-> maxSteps[a], Reset |-> TRUE]

\* for _, opt := range opts { opt(options) }
RECURSIVE ApplyOptions(_, _)
ApplyOptions(options, opts) ==
    IF opts = <<>> THEN options
    ELSE LET opt == Head(opts)
         IN ApplyOptions(IF opt.set = "MaxSteps"
                         THEN [options EXCEPT !.MaxSteps = opt.n]
                         ELSE [options EXCEPT !.Reset = opt.reset],
                         Tail(opts))

\* The activation of a.Run(ctx, task, opts...).
RunFrame(a, task, ctx, opts) ==
    LET options == ApplyOptions(DefaultOptions(a), opts)
    IN [NewFrame(a, options.MaxSteps, options.Reset, task, ctx)
            EXCEPT !.opts = opts]

NoRet ==
    [status |-> "none", result |-> NilResult, err |-> NoErr,
     frame |-> NewFrame("A", 0, TRUE, "", "caller")]

Top(t) == stack[t][Len(stack[t])]
Replace(t, f) == [stack EXCEPT ![t] = [@ EXCEPT ![Len(@)] = f]]

TaskText(t) == "task" \o ToString(t)

\* A boundary that does not look at the context.
CtxErrIgnored(t, f) == NoErr

\* ctx.Err(): nested runs get context.Background(), which is never cancelled.
CtxErr(t, f) ==
    IF f.ctx = "caller" /\ cancelled[t] THEN Err("context canceled") ELSE NoErr

\* The goroutine recorded for each step after memory m replaces the old one.
WriterAfter(old, m, t, reset) ==
    LET base == IF reset THEN <<>> ELSE old
    IN base \o [k \in 1..(Len(m.Steps) - Len(base)) |-> t]

\* ------------------------------------------------------------------- Run
\* The option lists a caller passes: WithMaxSteps(n), alone or followed by
\* WithReset(r).
CallerOpts ==
    {<<WithMaxSteps(n)>> : n \in 0..MaxStepsBound}
        \cup {<<WithMaxSteps(n), WithReset(r)>> :
                  n \in 0..MaxStepsBound, r \in BOOLEAN}

\* A caller starts Run(ctx, task, opts...) on A.
RunCall(t) ==
    /\ t \in callers
    /\ stack[t] = <<>>
    /\ ret[t].status = "none"
    /\ \E opts \in CallerOpts :
          stack' = [stack EXCEPT ![t] = <<RunFrame("A", TaskText(t), "caller", opts)>>]
    /\ UNCHANGED <<libVars, execVars, config, memory, mu, execState, cancelled, cancelPoint, ret, writer>>

\* The option lists of a caller that leaves the step budget to the agent:
\* none, or WithReset(false).
PlainOpts == {<<>>, <<WithReset(FALSE)>>}

\* A caller starts Run(ctx, task) or Run(ctx, task, WithReset(false)) on A.
RunCallPlain(t) ==
    /\ t \in callers
    /\ stack[t] = <<>>
    /\ ret[t].status = "none"
    /\ \E opts \in PlainOpts :
          stack' = [stack EXCEPT ![t] = <<RunFrame("A", TaskText(t), "caller", opts)>>]
    /\ UNCHANGED <<libVars, execVars, config, memory, mu, execState, cancelled, cancelPoint, ret, writer>>

\* Where the caller's Run call stands: not entered or returned ("outside"),
\* waiting for the lock or at the top of the loop ("boundary"), or past the
\* ctx.Err() check of a step that has not ended yet ("in step").
RunPoint(t) ==
    IF stack[t] = <<>> THEN "outside"
    ELSE IF stack[t][1].pc \in {"lock", "loop"} THEN "boundary"
    ELSE "in step"

\* The caller's context is cancelled, before or during the run.
Cancel(t) ==
    /\ t \in callers
    /\ ~cancelled[t]
    /\ ret[t].status = "none"
    /\ cancelled' = [cancelled EXCEPT ![t] = TRUE]
    /\ cancelPoint' = [cancelPoint EXCEPT ![t] = RunPoint(t)]
    /\ UNCHANGED <<libVars, execVars, config, memory, mu, execState, stack, ret, writer>>

\* A lock that never blocks.
CanLockAlways(a) == TRUE

\* a.mu.Lock() blocks while the mutex is held.
CanLock(a) == ~mu[a]

\* make(map[string]any): an empty map that is none of the earlier ones.
MakeMap(n) == [id |-> n, keys |-> {}]

\* A run start that replaces the map whatever the Reset option says.
ExecStateAlwaysFresh(a, f, st) ==
    IF variant[a] = "code" THEN MakeMap(st.id + 1) ELSE st

\* The execution state at the start of run f of agent a, from the state st
\* the agent holds: a new map when a CodeAgent's run has Reset set.
ExecStateAtStart(a, f, st) ==
    IF f.Reset /\ variant[a] = "code" THEN MakeMap(st.id + 1) ELSE st

\* a.mu.Lock(); the optional Reset; AddStep(TaskStep); the loop's locals.
Lock(t) ==
    /\ stack[t] # <<>>
    /\ LET f == Top(t)
           a == f.agent
           m0 == IF f.Reset THEN MemReset(memory[a]) ELSE memory[a]
           m1 == AddStep(m0, TaskStep(f.task))
       IN /\ f.pc = "lock"
          /\ CanLock(a)
          /\ mu' = [mu EXCEPT ![a] = TRUE]
          /\ memory' = [memory EXCEPT ![a] = m1]
          /\ writer' = [writer EXCEPT ![a] = WriterAfter(@, m1, t, f.Reset)]
          /\ execState' = [execState EXCEPT ![a] = ExecStateAtStart(a, f, @)]
          /\ stack' = Replace(t, [f EXCEPT !.pc = "loop", !.step = 1,
                                           !.finalOutput = NIL,
                                           !.state = "success"])
    /\ UNCHANGED <<libVars, execVars, config, cancelled, cancelPoint, ret>>

\* The state tag Run reports for the final output it holds.
StateTag(f) == IF f.finalOutput = NIL THEN "max_steps_error" ELSE f.state

\* A run that returns nothing at all.
RunResultNil(f, m) == NilResult

\* The RunResult built after the loop, from the memory m at that point.
RunResultOf(f, m) ==
    [isNil |-> FALSE, Output |-> f.finalOutput, State |-> StateTag(f),
     Steps |-> m.Steps, TokenUsage |-> TotalTokens(m)]

\* A return that leaves the mutex locked.
ReturnKeepsLock(t, f, result, err) ==
    LET n == Len(stack[t])
    IN /\ UNCHANGED mu
       /\ IF n = 1
          THEN /\ stack' = [stack EXCEPT ![t] = <<>>]
               /\ ret' = [ret EXCEPT ![t] =
                            [status |-> "returned", result |-> result,
                             err |-> err, frame |-> f]]
          ELSE /\ stack' = [stack EXCEPT ![t] =
                              Append(SubSeq(@, 1, n - 2),
                                     [@[n - 1] EXCEPT
                                        !.pc = "called",
                                        !.callRet = [result |-> result,
                                                     err |-> err]])]
               /\ UNCHANGED ret

\* return (result, err) with the deferred a.mu.Unlock(): the value goes to
\* the caller, or to the executeTool of the run that called this agent.
Return(t, f, result, err) ==
    LET n == Len(stack[t])
    IN /\ mu' = [mu EXCEPT ![f.agent] = FALSE]
       /\ IF n = 1
          THEN /\ stack' = [stack EXCEPT ![t] = <<>>]
               /\ ret' = [ret EXCEPT ![t] =
                            [status |-> "returned", result |-> result,
                             err |-> err, frame |-> f]]
          ELSE /\ stack' = [stack EXCEPT ![t] =
                              Append(SubSeq(@, 1, n - 2),
                                     [@[n - 1] EXCEPT
                                        !.pc = "called",
                                        !.callRet = [result |-> result,
                                                     err |-> err]])]
               /\ UNCHANGED ret

\* The loop condition and the cancellation check at the step boundary.
LoopHead(t) ==
    /\ stack[t] # <<>>
    /\ LET f == Top(t)
       IN /\ f.pc = "loop"
          /\ IF f.step > f.MaxSteps
             THEN Return(t, [f EXCEPT !.pc = "done", !.state = StateTag(f)],
                         RunResultOf(f, memory[f.agent]), NoErr)
             ELSE IF CtxErr(t, f).isErr
             THEN Return(t, [f EXCEPT !.pc = "cancelled"], NilResult, CtxErr(t, f))
             ELSE /\ stack' = Replace(t, [f EXCEPT
                                            !.pc = "generate",
                                            !.actionStep = NewActionStep(f.step),
                                            !.observations = <<>>,
                                            !.i = 0])
                  /\ UNCHANGED <<mu, ret>>
    /\ UNCHANGED <<libVars, execVars, config, memory, execState, cancelled, cancelPoint, writer>>

\* A loop that stays at the step number of a step whose model call failed.
NextStepNumberRetry(as) ==
    IF as.Error = Err("model error") THEN as.StepNumber ELSE as.StepNumber + 1

\* step++: the loop variable after the iteration that recorded step as.
NextStepNumber(as) == as.StepNumber + 1

\* A failure step that does not record the error.
ModelFailureStepNoError(as) == as

\* The step recorded when Generate fails: the error and nothing else.
ModelFailureStep(as) == [as EXCEPT !.Error = Err("model error")]

\* A missing-code-block step that loses the model's text.
NoCodeBlockStepBare(as) ==
    [NewActionStep(as.StepNumber) EXCEPT !.Error = Err("no code block found")]

\* The step recorded when parseCodeBlock finds no code: the model output
\* and usage already set, and the error.
NoCodeBlockStep(as) == [as EXCEPT !.Error = Err("no code block found")]

\* a.model.Generate and what follows it up to the dispatch of the action.
Generate(t) ==
    /\ stack[t] # <<>>
    /\ LET f == Top(t)
           a == f.agent
       IN /\ f.pc = "generate"
          /\ \E r \in Answers(model[a]) :
               LET g == [f EXCEPT !.genLog =
                            Append(@, [step |-> f.step, fail |-> r.fail,
                                       msgs |-> ToMessages(memory[a])])]
                   as == [f.actionStep EXCEPT !.ModelOutput = r.Content,
                                              !.TokenUsage = r.TokenUsage]
                   code == parseCodeBlock(r.Content)
                   failed ==
                       IF r.fail THEN ModelFailureStep(f.actionStep)
                       ELSE NoCodeBlockStep(as)
                   skip == r.fail \/ (variant[a] = "code" /\ code = "")
                   m1 == AddStep(memory[a], failed)
               IN IF skip
                  THEN /\ memory' = [memory EXCEPT ![a] = m1]
                       /\ writer' = [writer EXCEPT ![a] = WriterAfter(@, m1, t, FALSE)]
                       /\ stack' = Replace(t, [g EXCEPT !.pc = "loop",
                                                        !.step = NextStepNumber(failed),
                                                        !.actionStep = failed])
                  ELSE /\ UNCHANGED <<memory, writer>>
                       /\ stack' = Replace(t,
                            IF variant[a] = "code"
                            THEN [g EXCEPT !.pc = "execute",
                                           !.actionStep = [as EXCEPT !.CodeAction = code]]
                            ELSE IF Len(r.ToolCalls) > 0
                            THEN [g EXCEPT !.pc = "dispatch", !.i = 1,
                                           !.actionStep = [as EXCEPT !.ToolCalls = r.ToolCalls]]
                            ELSE [g EXCEPT !.pc = "endstep", !.actionStep = as])
    /\ UNCHANGED <<libVars, execVars, config, mu, execState, cancelled, cancelPoint, ret>>

\* An error line that leaves out the tool's name.
ObservationLineNoName(tc, result, err) ==
    IF err.isErr THEN "Error executing: " \o err.msg
    ELSE FmtV(result)

\* The observation line of one tool call's outcome.
ObservationLine(tc, result, err) ==
    IF err.isErr THEN "Error executing " \o tc.Name \o ": " \o err.msg
    ELSE FmtV(result)

\* A batch loop that marks the step final but drops the call's result.
ObserveDropsOutput(f, result, err) ==
    LET tc == f.actionStep.ToolCalls[f.i]
        final == ~err.isErr /\ tc.Name = "final_answer"
        last == f.i >= Len(f.actionStep.ToolCalls)
    IN [f EXCEPT
          !.observations = Append(@, ObservationLine(tc, result, err)),
          !.actionStep.IsFinal = IF final THEN TRUE ELSE @,
          !.i = @ + 1,
          !.pc = IF last THEN "endstep" ELSE "dispatch"]

\* A batch loop that puts each new observation in front of the earlier ones.
ObservePrepends(f, result, err) ==
    LET tc == f.actionStep.ToolCalls[f.i]
        final == ~err.isErr /\ tc.Name = "final_answer"
        last == f.i >= Len(f.actionStep.ToolCalls)
    IN [f EXCEPT
          !.observations = <<ObservationLine(tc, result, err)>> \o @,
          !.actionStep.IsFinal = IF final THEN TRUE ELSE @,
          !.finalOutput = IF final THEN result ELSE @,
          !.i = @ + 1,
          !.pc = IF last THEN "endstep" ELSE "dispatch"]

\* A batch loop that keeps the result of the first final_answer call.
ObserveFirstFinalWins(f, result, err) ==
    LET tc == f.actionStep.ToolCalls[f.i]
        final == ~err.isErr /\ tc.Name = "final_answer"
        last == f.i >= Len(f.actionStep.ToolCalls)
    IN [f EXCEPT
          !.observations = Append(@, ObservationLine(tc, result, err)),
          !.actionStep.IsFinal = IF final THEN TRUE ELSE @,
          !.finalOutput = IF final /\ ~f.actionStep.IsFinal THEN result ELSE @,
          !.i = @ + 1,
          !.pc = IF last THEN "endstep" ELSE "dispatch"]

\* A batch loop that takes a final_answer call as final even when it failed.
ObserveFinalOnError(f, result, err) ==
    LET tc == f.actionStep.ToolCalls[f.i]
        final == tc.Name = "final_answer"
        last == f.i >= Len(f.actionStep.ToolCalls)
    IN [f EXCEPT
          !.observations = Append(@, ObservationLine(tc, result, err)),
          !.actionStep.IsFinal = IF final THEN TRUE ELSE @,
          !.finalOutput = IF final THEN result ELSE @,
          !.i = @ + 1,
          !.pc = IF last THEN "endstep" ELSE "dispatch"]

\* The loop body of the tool-call batch after executeTool has returned
\* (result, err) for call f.i.
Observe(f, result, err) ==
    LET tc == f.actionStep.ToolCalls[f.i]
        final == ~err.isErr /\ tc.Name = "final_answer"
        last == f.i >= Len(f.actionStep.ToolCalls)
    IN [f EXCEPT
          !.observations = Append(@, ObservationLine(tc, result, err)),
          !.actionStep.IsFinal = IF final THEN TRUE ELSE @,
          !.finalOutput = IF final THEN result ELSE @,
          !.i = @ + 1,
          !.pc = IF last THEN "endstep" ELSE "dispatch"]

\* A lookup that consults the registry before the managed agents.
ResolveRegistryFirst(a, name) ==
    IF name \in DOMAIN tools[a] THEN "tool"
    ELSE IF name \in managedAgents[a] THEN "agent"
    ELSE "unknown"

\* What executeTool finds for a name: a.managedAgents[name] first, then
\* a.tools.Get(name).
Resolve(a, name) ==
    IF name \in managedAgents[a] THEN "agent"
    ELSE IF name \in DOMAIN tools[a] THEN "tool"
    ELSE "unknown"

\* executeTool for a name that is not a managed agent: the registry lookup
\* and Tool.Execute.  ran names the tool whose Execute was called.
ExecuteRegistered(a, tc) ==
    IF Resolve(a, tc.Name) = "unknown"
    THEN [result |-> NIL, err |-> Err("unknown tool: " \o tc.Name), ran |-> "none"]
    ELSE LET r == ToolExecute(tools[a][tc.Name], tc.Arguments)
         IN [result |-> r.result, err |-> r.err, ran |-> "tool:" \o tc.Name]

\* The record of one executeTool or Execute call of step f.step.
Logged(f, ran, result, err) ==
    [step |-> f.step, ran |-> ran, result |-> result, err |-> err]

\* The next call of the batch: executeTool(tc).  A managed agent's Run is
\* entered with context.Background() and the agent's default options.
Dispatch(t) ==
    /\ stack[t] # <<>>
    /\ LET f == Top(t)
           a == f.agent
           tc == f.actionStep.ToolCalls[f.i]
           taskArg == IF tc.Arguments.task = ABSENT THEN "" ELSE tc.Arguments.task
           r == ExecuteRegistered(a, tc)
       IN /\ f.pc = "dispatch"
          /\ IF Resolve(a, tc.Name) = "agent"
             THEN stack' = [stack EXCEPT ![t] =
                      Append([@ EXCEPT ![Len(@)] = [f EXCEPT !.pc = "calling"]],
                             RunFrame(tc.Name, taskArg, "bg", <<>>))]
             ELSE stack' = Replace(t, [Observe(f, r.result, r.err) EXCEPT
                      !.execLog = Append(@, Logged(f, r.ran, r.result, r.err))])
    /\ UNCHANGED <<libVars, execVars, config, memory, mu, execState, cancelled, cancelPoint, ret, writer>>

\* executeTool after the managed agent's Run has returned.
Called(t) ==
    /\ stack[t] # <<>>
    /\ LET f == Top(t)
           cr == f.callRet
           tc == f.actionStep.ToolCalls[f.i]
           result == IF cr.err.isErr THEN NIL ELSE cr.result.Output
       IN /\ f.pc = "called"
          /\ stack' = Replace(t,
                [Observe(f, result, cr.err) EXCEPT
                   !.callRet = NoCallRet,
                   !.execLog = Append(@, Logged(f, "agent:" \o tc.Name,
                                                result, cr.err))])
    /\ UNCHANGED <<libVars, execVars, config, memory, mu, execState, cancelled, cancelPoint, ret, writer>>

\* A recording that marks the step final whatever Execute returned.
RecordExecutionAnyOutcome(f, o) ==
    LET final == isFinalAnswer(f.actionStep.CodeAction)
    IN [f EXCEPT
          !.actionStep.Error = o.err,
          !.actionStep.Observations = o.logs,
          !.actionStep.IsFinal = final,
          !.finalOutput = IF final THEN o.output ELSE @]

\* A recording that drops the logs of a failed execution.
RecordExecutionNoLogsOnError(f, o) ==
    LET final == ~o.err.isErr /\ isFinalAnswer(f.actionStep.CodeAction)
    IN [f EXCEPT
          !.actionStep.Error = o.err,
          !.actionStep.Observations = IF o.err.isErr THEN "" ELSE o.logs,
          !.actionStep.IsFinal = final,
          !.finalOutput = IF final THEN o.output ELSE @]

\* What Run records of the outcome o of Execute: the error, the logs, and,
\* when there is no error and the code calls final_answer, the final flag
\* and the output.
RecordExecution(f, o) ==
    LET final == ~o.err.isErr /\ isFinalAnswer(f.actionStep.CodeAction)
    IN [f EXCEPT
          !.actionStep.Error = o.err,
          !.actionStep.Observations = o.logs,
          !.actionStep.IsFinal = final,
          !.finalOutput = IF final THEN o.output ELSE @]

\* a.executor.Execute(code, a.execState) and the recording of its outcome.
Execute(t) ==
    /\ stack[t] # <<>>
    /\ LET f == Top(t)
       IN /\ f.pc = "execute"
          /\ \E o \in ExecOutcomes :
               stack' = Replace(t, [RecordExecution(f, o) EXCEPT
                      !.execLog = Append(@, Logged(f, "executor", o.output, o.err)),
                      !.stateLog = Append(@, execState[f.agent]),
                      !.pc = "endstep"])
    /\ UNCHANGED <<libVars, execVars, config, memory, mu, execState, cancelled, cancelPoint, ret, writer>>

\* The end of a step: the step is appended, the callbacks fire, and a final
\* step appends the FinalAnswerStep, leaves the loop and returns.
EndStep(t) ==
    /\ stack[t] # <<>>
    /\ LET f == Top(t)
           a == f.agent
           as == IF Len(f.actionStep.ToolCalls) > 0
                 THEN [f.actionStep EXCEPT !.Observations = Join(f.observations, "\n")]
                 ELSE f.actionStep
           g == [f EXCEPT !.actionStep = as,
                          !.fired = @ \o Trigger(callbacks[a], as)]
           m1 == AddStep(memory[a], as)
           m2 == AddStep(m1, FinalAnswerStep(f.finalOutput))
       IN /\ f.pc = "endstep"
          /\ IF as.IsFinal
             THEN /\ memory' = [memory EXCEPT ![a] = m2]
                  /\ writer' = [writer EXCEPT ![a] = WriterAfter(@, m2, t, FALSE)]
                  /\ Return(t, [g EXCEPT !.pc = "done", !.state = StateTag(g)],
                            RunResultOf(g, m2), NoErr)
             ELSE /\ memory' = [memory EXCEPT ![a] = m1]
                  /\ writer' = [writer EXCEPT ![a] = WriterAfter(@, m1, t, FALSE)]
                  /\ stack' = Replace(t, [g EXCEPT !.pc = "loop",
                                                   !.step = NextStepNumber(as)])
                  /\ UNCHANGED <<mu, ret>>
    /\ UNCHANGED <<libVars, execVars, config, execState, cancelled, cancelPoint>>

\* ---------------------------------------------------------- the executors
\* The longest user code, in statements.
MaxCodeLen == 2

SENTINEL == "__RESULT__:"

\* Python values the user code passes to final_answer: an int, None, and a
\* set, which json.dumps cannot serialise.
PyValues == {"42", "None", "{1}"}
IsSerializable(v) == v # "{1}"
\* json.dumps of a Python value; of a str it is the quoted text.
JsonDumps(v) == v
JsonDumpsStr(text) == "\"" \o text \o "\""

\* The statements user code is made of.
Statements ==
    {[op |-> "print", arg |-> "1"],
     [op |-> "print", arg |-> ""],
     [op |-> "print", arg |-> "__RESULT__:7"],
     [op |-> "raise", arg |-> ""],
     [op |-> "hang", arg |-> ""]}
    \cup {[op |-> "final_answer", arg |-> v] : v \in PyValues}

Codes == UNION {[1..n -> Statements] : n \in 0..MaxCodeLen}

\* strings.Split(s, sep)
RECURSIVE Split(_, _)
Split(s, sep) ==
    LET i == IndexFrom(s, sep, 1)
    IN IF i = 0 THEN <<s>>
       ELSE <<SubSeq(s, 1, i - 1)>> \o Split(SubSeq(s, i + Len(sep), Len(s)), sep)

IsDigits(t) ==
    /\ Len(t) > 0
    /\ \A i \in 1..Len(t) :
          SubSeq(t, i, i) \in {"0", "1", "2", "3", "4", "5", "6", "7", "8", "9"}

\* json.Unmarshal([]byte(text), &result) with its error dropped: the decoded
\* value, or nil when the text is null or is not JSON.
JsonUnmarshal(text) ==
    LET t == TrimSpace(text)
    IN IF IsDigits(t) THEN t
       ELSE IF Len(t) >= 2 /\ SubSeq(t, 1, 1) = "\"" /\ SubSeq(t, Len(t), Len(t)) = "\""
       THEN SubSeq(t, 2, Len(t) - 1)
       ELSE NIL

Triple(output, logs, err) == [output |-> output, logs |-> logs, err |-> err]
NoTriple == Triple(NIL, "", NoErr)

\* lines := strings.Split(strings.TrimSpace(logs), "\n")
SplitLinesUntrimmed(logs) == Split(logs, "\n")

SplitLines(logs) == Split(TrimSpace(logs), "\n")

\* The case err := <-done of PythonExecutor.Execute.
PythonResult(logs, errText, err) ==
    LET lines == SplitLines(logs)
        lastLine == lines[Len(lines)]
    IN IF err # NoErr THEN Triple(NIL, logs, Err(err.msg \o ": " \o errText))
       ELSE IF Len(lines) = 0 THEN Triple(NIL, logs, NoErr)
       ELSE IF HasPrefix(lastLine, SENTINEL)
       THEN Triple(JsonUnmarshal(SubSeq(lastLine, Len(SENTINEL) + 1, Len(lastLine))),
                   Join(SubSeq(lines, 1, Len(lines) - 1), "\n"), NoErr)
       ELSE Triple(NIL, logs, NoErr)

\* The case err := <-done of DockerExecutor.Execute.
DockerResult(logs, errText, err) ==
    LET lines == SplitLines(logs)
        lastLine == lines[Len(lines)]
    IN IF err # NoErr THEN Triple(NIL, logs, Err(err.msg \o ": " \o errText))
       ELSE IF Len(lines) > 0 /\ HasPrefix(lastLine, SENTINEL)
       THEN Triple(JsonUnmarshal(SubSeq(lastLine, Len(SENTINEL) + 1, Len(lastLine))),
                   Join(SubSeq(lines, 1, Len(lines) - 1), "\n"), NoErr)
       ELSE Triple(NIL, logs, NoErr)

\* What each executor returns from its timer case; 30s is the default
\* timeout of NewPythonExecutor.
TimeoutResult(e) ==
    IF e = "python" THEN Triple(NIL, "", Err("execution timeout after 30s"))
    ELSE Triple(NIL, "", Err("docker execution timeout"))

\* The record of a library call; NoOp before the first one.
NoOp == [op |-> "none"]

\* The client has called nothing yet.
LibIdle ==
    /\ modelText = ""
    /\ mem = NewMemory("")
    /\ registry = <<>>
    /\ regLog = <<>>
    /\ lastOp = NoOp
    /\ prevOp = NoOp

\* No Execute call has been made.
ExecIdle ==
    /\ executor = "python"
    /\ userCode = <<>>
    /\ startable = TRUE
    /\ epc = "idle"
    /\ runner = "none"
    /\ cmdProcess = FALSE
    /\ child = "none"
    /\ ip = 1
    /\ finalAnswer = "None"
    /\ stdout = ""
    /\ stderr = ""
    /\ runErr = NoErr
    /\ timer = "none"
    /\ via = "none"
    /\ out = NoTriple

\* ------------------------------------------------------ the specification
\* The history an earlier, completed run of A has left in its memory.
PriorSteps ==
    <<TaskStep("old"),
      [NewActionStep(1) EXCEPT !.ModelOutput = "old",
                               !.ToolCalls = <<FinalCall("old")>>,
                               !.Observations = "old", !.IsFinal = TRUE],
      FinalAnswerStep("old")>>

InitAgents(v) ==
    /\ variant = [a \in Agents |-> IF a = "A" THEN v ELSE "tool"]
    /\ managedAgents = [a \in Agents |->
                          IF a = "A" /\ v = "tool" /\ callers = {1} THEN {"B"} ELSE {}]
    /\ tools = [a \in Agents |->
                  IF managedAgents[a] = {} THEN NewAgentTools
                  ELSE Register(NewAgentTools, "B", "FuncTool")]
    /\ callbacks = [a \in Agents |-> [action |-> <<"onAction">>, all |-> <<"onAll">>]]
    /\ maxSteps = [a \in Agents |-> NestedMaxSteps]
    /\ mu = [a \in Agents |-> FALSE]
    /\ execState = [a \in Agents |-> MakeMap(0)]
    /\ stack = [t \in Threads |-> <<>>]
    /\ cancelled = [t \in Threads |-> FALSE]
    /\ cancelPoint = [t \in Threads |-> "none"]
    /\ ret = [t \in Threads |-> NoRet]

Init ==
    /\ callers = {1}
    /\ \E v \in {"tool", "code"} :
          /\ InitAgents(v)
          /\ model = [a \in Agents |->
                        IF a = "B" THEN "NestedModel"
                        ELSE IF v = "tool" THEN "ToolModel" ELSE "CodeModel"]
    /\ memory = [a \in Agents |->
                   [SystemPrompt |-> "You are an expert assistant.",
                    Steps |-> IF a = "A" THEN PriorSteps ELSE <<>>]]
    /\ writer = [a \in Agents |->
                   IF a = "A" THEN [k \in 1..Len(PriorSteps) |-> 0] ELSE <<>>]
    /\ ExecIdle
    /\ LibIdle

Next ==
    \E t \in Threads :
        \/ RunCall(t)
        \/ Cancel(t)
        \/ Lock(t)
        \/ LoopHead(t)
        \/ Generate(t)
        \/ Dispatch(t)
        \/ Called(t)
        \/ Execute(t)
        \/ EndStep(t)

Spec == Init /\ [][Next]_vars

\* NumGoroutines goroutines call Run on the same agent A, which starts with
\* an empty memory and manages no agent.
InitConc ==
    /\ callers = Threads
    /\ \E v \in {"tool", "code"} :
          /\ InitAgents(v)
          /\ model = [a \in Agents |->
                        IF v = "tool" THEN "SmallModel" ELSE "SmallCodeModel"]
    /\ memory = [a \in Agents |-> NewMemory("You are an expert assistant.")]
    /\ writer = [a \in Agents |-> <<>>]
    /\ ExecIdle
    /\ LibIdle

NextConc ==
    \E t \in Threads :
        \/ RunCall(t)
        \/ Cancel(t)
        \/ Lock(t)
        \/ LoopHead(t)
        \/ Generate(t)
        \/ Dispatch(t)
        \/ Execute(t)
        \/ EndStep(t)

SpecConc == InitConc /\ [][NextConc]_vars

\* The steps of goroutine t's Run call.  A goroutine that can run is run:
\* the model, the tools and the executor return, and a goroutine waiting at
\* a.mu.Lock() gets the mutex once it stays free.
RunStep(t) ==
    \/ Lock(t)
    \/ LoopHead(t)
    \/ Generate(t)
    \/ Dispatch(t)
    \/ Execute(t)
    \/ EndStep(t)

NextConcFair ==
    \E t \in Threads :
        \/ RunCallPlain(t)
        \/ Cancel(t)
        \/ Lock(t)
        \/ LoopHead(t)
        \/ Generate(t)
        \/ Dispatch(t)
        \/ Execute(t)
        \/ EndStep(t)

SpecConcFair ==
    /\ InitConc
    /\ [][NextConcFair]_vars
    /\ \A t \in Threads : WF_vars(RunStep(t))

\* One caller runs A, a ToolCallingAgent that manages B, while B manages an
\* Agent named "A" that forwards Run to A: the management graph is cyclic.
InitCycle ==
    /\ callers = {1}
    /\ variant = [a \in Agents |-> "tool"]
    /\ managedAgents = [a \in Agents |-> IF a = "A" THEN {"B"} ELSE {"A"}]
    /\ tools = [a \in Agents |-> NewAgentTools]
    /\ callbacks = [a \in Agents |-> [action |-> <<"onAction">>, all |-> <<"onAll">>]]
    /\ maxSteps = [a \in Agents |-> NestedMaxSteps]
    /\ model = [a \in Agents |-> IF a = "A" THEN "CycleModel" ELSE "BackModel"]
    /\ memory = [a \in Agents |-> NewMemory("You are an expert assistant.")]
    /\ writer = [a \in Agents |-> <<>>]
    /\ mu = [a \in Agents |-> FALSE]
    /\ execState = [a \in Agents |-> MakeMap(0)]
    /\ stack = [t \in Threads |-> <<>>]
    /\ cancelled = [t \in Threads |-> FALSE]
    /\ cancelPoint = [t \in Threads |-> "none"]
    /\ ret = [t \in Threads |-> NoRet]
    /\ ExecIdle
    /\ LibIdle

NextCycle ==
    \E t \in Threads :
        \/ RunCall(t)
        \/ Cancel(t)
        \/ Lock(t)
        \/ LoopHead(t)
        \/ Generate(t)
        \/ Dispatch(t)
        \/ Called(t)
        \/ EndStep(t)

SpecCycle == InitCycle /\ [][NextCycle]_vars

\* ------------------------------------------------- one Execute call
\* Execute up to its select: the command is built, the buffers attached,
\* the goroutine of done <- cmd.Run() spawned and the timer armed.
ExecutorExecute ==
    /\ epc = "idle"
    /\ epc' = "select"
    /\ runner' = "spawned"
    /\ timer' = "armed"
    /\ UNCHANGED <<executor, userCode, startable, cmdProcess, child, ip, finalAnswer,
                   stdout, stderr, runErr, via, out>>
    /\ UNCHANGED <<agentVars, libVars>>

\* cmd.Run begins with cmd.Start, which sets cmd.Process once the child
\* runs, or fails and leaves it nil.
RunStart ==
    /\ runner = "spawned"
    /\ epc # "panicked"
    /\ IF startable
       THEN /\ cmdProcess' = TRUE
            /\ child' = "running"
            /\ runner' = "waiting"
            /\ UNCHANGED runErr
       ELSE /\ runner' = "sending"
            /\ runErr' = Err("executable file not found")
            /\ UNCHANGED <<cmdProcess, child>>
    /\ UNCHANGED <<executor, userCode, startable, epc, ip, finalAnswer, stdout,
                   stderr, timer, via, out>>
    /\ UNCHANGED <<agentVars, libVars>>

\* The wrapper's final_answer(answer); only PythonExecutor's prints.
FinalAnswerPrints(e, answer) ==
    IF e = "python" THEN "Final Answer: " \o answer \o "\n" ELSE ""

\* The child runs the next statement of the user code. A hang statement
\* (while True: pass) never completes.
ChildStep ==
    /\ child = "running"
    /\ ip <= Len(userCode)
    /\ userCode[ip].op # "hang"
    /\ LET st == userCode[ip]
       IN CASE st.op = "print" ->
                 /\ stdout' = stdout \o st.arg \o "\n"
                 /\ ip' = ip + 1
                 /\ UNCHANGED <<finalAnswer, stderr, child>>
            [] st.op = "final_answer" ->
                 /\ finalAnswer' = st.arg
                 /\ stdout' = stdout \o FinalAnswerPrints(executor, st.arg)
                 /\ ip' = ip + 1
                 /\ UNCHANGED <<stderr, child>>
            [] st.op = "raise" ->
                 /\ stderr' = stderr \o "Traceback"
                 /\ child' = "exit1"
                 /\ UNCHANGED <<finalAnswer, stdout, ip>>
    /\ UNCHANGED <<executor, userCode, startable, epc, runner, cmdProcess, runErr,
                   timer, via, out>>
    /\ UNCHANGED <<agentVars, libVars>>

\* The end of the wrapper: the sentinel line when __final_answer__ is not
\* None. PythonExecutor's wrapper falls back to the value's str when
\* json.dumps raises; DockerExecutor's lets the exception end the child.
ChildExit ==
    /\ child = "running"
    /\ ip = Len(userCode) + 1
    /\ IF finalAnswer = "None"
       THEN /\ child' = "exit0"
            /\ UNCHANGED <<stdout, stderr>>
       ELSE IF IsSerializable(finalAnswer)
       THEN /\ stdout' = stdout \o SENTINEL \o JsonDumps(finalAnswer) \o "\n"
            /\ child' = "exit0"
            /\ UNCHANGED stderr
       ELSE IF executor = "python"
       THEN /\ stdout' = stdout \o SENTINEL \o JsonDumpsStr(finalAnswer) \o "\n"
            /\ child' = "exit0"
            /\ UNCHANGED stderr
       ELSE /\ stderr' = stderr \o "Traceback"
            /\ child' = "exit1"
            /\ UNCHANGED stdout
    /\ UNCHANGED <<executor, userCode, startable, epc, runner, cmdProcess, ip,
                   finalAnswer, runErr, timer, via, out>>
    /\ UNCHANGED <<agentVars, libVars>>

\* cmd.Run returns once the child has ended; the goroutine then offers
\* the error on the unbuffered channel done.
RunReturns ==
    /\ runner = "waiting"
    /\ epc # "panicked"
    /\ child \in {"exit0", "exit1", "killed"}
    /\ runner' = "sending"
    /\ runErr' = CASE child = "exit0" -> NoErr
                   [] child = "exit1" -> Err("exit status 1")
                   [] child = "killed" -> Err("signal: killed")
    /\ UNCHANGED <<executor, userCode, startable, epc, cmdProcess, child, ip,
                   finalAnswer, stdout, stderr, timer, via, out>>
    /\ UNCHANGED <<agentVars, libVars>>

\* The timeout elapses: the channel of time.After becomes ready.
TimerFires ==
    /\ timer = "armed"
    /\ timer' = "fired"
    /\ UNCHANGED <<executor, userCode, startable, epc, runner, cmdProcess, child, ip,
                   finalAnswer, stdout, stderr, runErr, via, out>>
    /\ UNCHANGED <<agentVars, libVars>>

\* select takes case err := <-done: the send and the receive meet.
ReceiveDone ==
    /\ epc = "select"
    /\ runner = "sending"
    /\ runner' = "sent"
    /\ via' = "done"
    /\ epc' = "returned"
    /\ out' = IF executor = "python" THEN PythonResult(stdout, stderr, runErr)
              ELSE DockerResult(stdout, stderr, runErr)
    /\ UNCHANGED <<executor, userCode, startable, cmdProcess, child, ip, finalAnswer,
                   stdout, stderr, runErr, timer>>
    /\ UNCHANGED <<agentVars, libVars>>

\* select takes the timer case. PythonExecutor calls cmd.Process.Kill(),
\* which dereferences nil when cmd.Start has not set cmd.Process;
\* DockerExecutor returns at once.
ReceiveTimeout ==
    /\ epc = "select"
    /\ timer = "fired"
    /\ via' = "timeout"
    /\ IF executor = "python" /\ ~cmdProcess
       THEN /\ epc' = "panicked"
            /\ UNCHANGED <<child, out>>
       ELSE /\ epc' = "returned"
            /\ out' = TimeoutResult(executor)
            /\ child' = IF executor = "python" /\ child = "running"
                        THEN "killed" ELSE child
    /\ UNCHANGED <<executor, userCode, startable, runner, cmdProcess, ip, finalAnswer,
                   stdout, stderr, runErr, timer>>
    /\ UNCHANGED <<agentVars, libVars>>

\* An executor of either kind is about to run some user code; no agent
\* is running.
InitExec ==
    /\ callers = {1}
    /\ InitAgents("code")
    /\ model = [a \in Agents |-> "SmallCodeModel"]
    /\ memory = [a \in Agents |-> NewMemory("You are an expert assistant.")]
    /\ writer = [a \in Agents |-> <<>>]
    /\ executor \in {"python", "docker"}
    /\ userCode \in Codes
    /\ startable \in BOOLEAN
    /\ epc = "idle"
    /\ runner = "none"
    /\ cmdProcess = FALSE
    /\ child = "none"
    /\ ip = 1
    /\ finalAnswer = "None"
    /\ stdout = ""
    /\ stderr = ""
    /\ runErr = NoErr
    /\ timer = "none"
    /\ via = "none"
    /\ out = NoTriple
    /\ LibIdle

NextExec ==
    \/ ExecutorExecute
    \/ RunStart
    \/ ChildStep
    \/ ChildExit
    \/ RunReturns
    \/ TimerFires
    \/ ReceiveDone
    \/ ReceiveTimeout

SpecExec == InitExec /\ [][NextExec]_vars

\* ------------------------------------------------- the library's client
\* No agent runs and no executor is called.
AgentsIdle ==
    /\ callers = {1}
    /\ InitAgents("code")
    /\ model = [a \in Agents |-> "SmallCodeModel"]
    /\ memory = [a \in Agents |-> NewMemory("You are an expert assistant.")]
    /\ writer = [a \in Agents |-> <<>>]
    /\ ExecIdle

\* The longest model output, in pieces.
MaxPieces == 4

\* The pieces model outputs are made of.
Pieces == {"<code>", "</code>", FENCE, "python", "py", "\n", " ", "print(1)", "Done."}

RECURSIVE Concat(_)
Concat(ps) == IF Len(ps) = 0 THEN "" ELSE Head(ps) \o Concat(Tail(ps))

ModelTexts == {Concat(ps) : ps \in UNION {[1..n -> Pieces] : n \in 0..MaxPieces}}

\* code := parseCodeBlock(resp.Content)
CallParseCodeBlock ==
    /\ lastOp = NoOp
    /\ lastOp' = [op |-> "parseCodeBlock", out |-> parseCodeBlock(modelText)]
    /\ UNCHANGED <<modelText, mem, registry, regLog, prevOp>>
    /\ UNCHANGED <<agentVars, execVars>>

InitParse ==
    /\ AgentsIdle
    /\ modelText \in ModelTexts
    /\ mem = NewMemory("")
    /\ registry = <<>>
    /\ regLog = <<>>
    /\ lastOp = NoOp
    /\ prevOp = NoOp

NextParse == CallParseCodeBlock

SpecParse == InitParse /\ [][NextParse]_vars

\* The longest history the client builds.
MaxHistory == 2

\* The Action steps with each of ModelOutput, ToolCalls, Observations and
\* Error set or not; token usage comes with the model's text.
ActionSteps ==
    {[NewActionStep(1) EXCEPT !.ModelOutput = mo, !.ToolCalls = tcs,
                              !.Observations = obs, !.Error = e,
                              !.TokenUsage = IF mo = "" THEN NoUsage ELSE Usage(3, 5)] :
        mo \in {"", "thought"}, tcs \in {<<>>, <<CalcCall("1+1")>>},
        obs \in {"", "2"}, e \in {NoErr, Err("boom")}}

\* The steps the client appends.
ClientSteps ==
    ActionSteps
    \cup {TaskStep("t"), FinalAnswerStep("a"),
          PlanningStep("plan", Usage(1, 2)), PlanningStep("plan", NoUsage)}

SystemPrompts == {"", "You are an expert assistant."}

\* The call before the last one is kept when it was a ToMessages call.
Remember(op) == IF op.op = "ToMessages" THEN op ELSE NoOp

\* m.AddStep(step)
CallAddStep ==
    /\ Len(mem.Steps) < MaxHistory
    /\ \E step \in ClientSteps : mem' = AddStep(mem, step)
    /\ lastOp' = [op |-> "AddStep"]
    /\ prevOp' = Remember(lastOp)
    /\ UNCHANGED <<modelText, registry, regLog>>
    /\ UNCHANGED <<agentVars, execVars>>

\* m.Reset()
CallReset ==
    /\ mem' = MemReset(mem)
    /\ lastOp' = [op |-> "Reset", before |-> mem]
    /\ prevOp' = Remember(lastOp)
    /\ UNCHANGED <<modelText, registry, regLog>>
    /\ UNCHANGED <<agentVars, execVars>>

\* msgs := m.ToMessages(): nothing of m is assigned.
CallToMessages ==
    /\ lastOp' = [op |-> "ToMessages", before |-> mem, out |-> ToMessages(mem)]
    /\ prevOp' = Remember(lastOp)
    /\ UNCHANGED <<modelText, mem, registry, regLog>>
    /\ UNCHANGED <<agentVars, execVars>>

\* step.ToMessages() on an Action step of the history.
CallActionToMessages ==
    /\ \E k \in 1..Len(mem.Steps) :
          /\ mem.Steps[k].type = "action"
          /\ lastOp' = [op |-> "ActionStep.ToMessages", step |-> mem.Steps[k],
                        out |-> ActionToMessages(mem.Steps[k])]
    /\ prevOp' = Remember(lastOp)
    /\ UNCHANGED <<modelText, mem, registry, regLog>>
    /\ UNCHANGED <<agentVars, execVars>>

\* tokens := m.TotalTokens()
CallTotalTokens ==
    /\ lastOp' = [op |-> "TotalTokens", before |-> mem, out |-> TotalTokens(mem)]
    /\ prevOp' = Remember(lastOp)
    /\ UNCHANGED <<modelText, mem, registry, regLog>>
    /\ UNCHANGED <<agentVars, execVars>>

\* The RunResult Run builds after its loop, had m been the agent's memory.
CallRunResult ==
    /\ lastOp' = [op |-> "RunResult", before |-> mem,
                  out |-> RunResultOf(NewFrame("A", 0, FALSE, "", "caller"), mem)]
    /\ prevOp' = Remember(lastOp)
    /\ UNCHANGED <<modelText, mem, registry, regLog>>
    /\ UNCHANGED <<agentVars, execVars>>

InitMem ==
    /\ AgentsIdle
    /\ modelText = ""
    /\ \E prompt \in SystemPrompts : mem = NewMemory(prompt)
    /\ registry = <<>>
    /\ regLog = <<>>
    /\ lastOp = NoOp
    /\ prevOp = NoOp

NextMem ==
    \/ CallAddStep
    \/ CallReset
    \/ CallToMessages
    \/ CallActionToMessages
    \/ CallTotalTokens
    \/ CallRunResult

SpecMem == InitMem /\ [][NextMem]_vars

\* A client registers tools in a ToolRegistry and looks them up.
MaxRegs == 4

\* The tools the client holds: the built-in ones and user tools, one of which
\* is named "final_answer" and one "calculator".
ClientTools ==
    {[name |-> "final_answer", kind |-> "FinalAnswerTool"],
     [name |-> "final_answer", kind |-> "FuncTool"],
     [name |-> "calculator", kind |-> "CalculatorTool"],
     [name |-> "calculator", kind |-> "FuncTool"],
     [name |-> "search", kind |-> "FuncTool"]}

\* The names the client asks for; "missing" is the name of no tool.
LookupNames == {tool.name : tool \in ClientTools} \cup {"missing"}

\* r.Register(tool)
CallRegister ==
    /\ Len(regLog) < MaxRegs
    /\ \E tool \in ClientTools :
          /\ registry' = Register(registry, tool.name, tool.kind)
          /\ regLog' = Append(regLog, tool)
    /\ lastOp' = [op |-> "Register"]
    /\ prevOp' = Remember(lastOp)
    /\ UNCHANGED <<modelText, mem>>
    /\ UNCHANGED <<agentVars, execVars>>

\* t, ok := r.Get(name)
CallGet ==
    /\ \E name \in LookupNames :
          lastOp' = [op |-> "Get", name |-> name, out |-> Get(registry, name)]
    /\ prevOp' = Remember(lastOp)
    /\ UNCHANGED <<modelText, mem, registry, regLog>>
    /\ UNCHANGED <<agentVars, execVars>>

\* r.All()
CallAll ==
    /\ lastOp' = [op |-> "All", out |-> All(registry)]
    /\ prevOp' = Remember(lastOp)
    /\ UNCHANGED <<modelText, mem, registry, regLog>>
    /\ UNCHANGED <<agentVars, execVars>>

\* r.Names(), in one of the orders the map may be ranged over.
CallNames ==
    /\ \E names \in Names(registry) : lastOp' = [op |-> "Names", out |-> names]
    /\ prevOp' = Remember(lastOp)
    /\ UNCHANGED <<modelText, mem, registry, regLog>>
    /\ UNCHANGED <<agentVars, execVars>>

\* The registry is a new one, or the one NewToolCallingAgent has made and
\* registered the built-in final_answer tool in.
InitReg ==
    /\ AgentsIdle
    /\ modelText = ""
    /\ mem = NewMemory("")
    /\ \E builtin \in BOOLEAN :
          IF builtin
          THEN /\ registry = Register(NewToolRegistry, "final_answer", "FinalAnswerTool")
               /\ regLog = <<[name |-> "final_answer", kind |-> "FinalAnswerTool"]>>
          ELSE /\ registry = NewToolRegistry
               /\ regLog = <<>>
    /\ lastOp = NoOp
    /\ prevOp = NoOp

NextReg ==
    \/ CallRegister
    \/ CallGet
    \/ CallAll
    \/ CallNames

SpecReg == InitReg /\ [][NextReg]_vars

\* A client registers handlers in a CallbackRegistry and triggers it.
MaxHandlers == 4

\* The step types handlers are registered for.
HandlerTypes == {"action", "all", "task"}

\* r.Register(stepType, fn), with a handler of its own for every call.
CallRegisterCallback ==
    /\ Len(regLog) < MaxHandlers
    /\ \E stepType \in HandlerTypes :
          LET fn == "h" \o ToString(Len(regLog) + 1)
          IN /\ registry' = RegisterCallback(registry, stepType, fn)
             /\ regLog' = Append(regLog, [stepType |-> stepType, fn |-> fn])
    /\ lastOp' = [op |-> "Register"]
    /\ prevOp' = Remember(lastOp)
    /\ UNCHANGED <<modelText, mem>>
    /\ UNCHANGED <<agentVars, execVars>>

\* r.Trigger(step) on an Action step; out lists the handler invocations.
CallTrigger ==
    /\ \E n \in 1..2 :
          lastOp' = [op |-> "Trigger", step |-> NewActionStep(n),
                     out |-> Trigger(registry, NewActionStep(n))]
    /\ prevOp' = Remember(lastOp)
    /\ UNCHANGED <<modelText, mem, registry, regLog>>
    /\ UNCHANGED <<agentVars, execVars>>

InitCb ==
    /\ AgentsIdle
    /\ modelText = ""
    /\ mem = NewMemory("")
    /\ registry = NewCallbackRegistry
    /\ regLog = <<>>
    /\ lastOp = NoOp
    /\ prevOp = NoOp

NextCb ==
    \/ CallRegisterCallback
    \/ CallTrigger

SpecCb == InitCb /\ [][NextCb]_vars

\* ------------------------------------------------- reading a run's state
Returned(t) == ret[t].status = "returned"

\* The runs that hold their agent's lock.
Holding ==
    {f \in UNION {{stack[t][d] : d \in 1..Len(stack[t])} : t \in Threads} :
        f.pc # "lock"}

\* The runs that have returned to their caller.
Finished == {ret[t].frame : t \in {u \in Threads : Returned(u)}}

\* The steps a run has appended: the agent's history from its last Task step.
RunBlock(a) ==
    LET steps == memory[a].Steps
        k == CHOOSE k \in 1..Len(steps) :
                /\ steps[k].type = "task"
                /\ \A j \in (k + 1)..Len(steps) : steps[j].type # "task"
    IN SubSeq(steps, k, Len(steps))

IsAction(step) == step.type = "action"
IsFinalAction(step) == step.type = "action" /\ step.IsFinal

\* The log entries of step k of a run.
ExecsOf(f, k) == SelectSeq(f.execLog, LAMBDA e : e.step = k)

\* ---------------------------------------------------------------- claims

\* C1: a run with Reset=true and MaxSteps=N whose context is never cancelled
\* and in which no step is marked final returns a RunResult with State
\* "max_steps_error", nil Output and a history of the Task step followed by
\* exactly N Action steps.
C1_ExhaustedAfterNSteps ==
    \A t \in Threads :
        LET f == ret[t].frame
            res == ret[t].result
        IN (/\ Returned(t)
            /\ f.Reset
            /\ ~cancelled[t]
            /\ \A k \in 1..Len(RunBlock(f.agent)) :
                  ~IsFinalAction(RunBlock(f.agent)[k]))
           => /\ ~res.isNil
              /\ ~ret[t].err.isErr
              /\ res.State = "max_steps_error"
              /\ res.Output = NIL
              /\ Len(res.Steps) = f.MaxSteps + 1
              /\ res.Steps[1] = TaskStep(f.task)
              /\ \A k \in 2..Len(res.Steps) : IsAction(res.Steps[k])

\* A tool-variant run of MaxStepsBound steps that met a model failure and a
\* failing tool call and ended exhausted.
C1_Witness ==
    /\ Returned(1)
    /\ variant["A"] = "tool"
    /\ ret[1].frame.Reset
    /\ ~cancelled[1]
    /\ ret[1].frame.MaxSteps = MaxStepsBound
    /\ ret[1].result.State = "max_steps_error"
    /\ Len(ret[1].result.Steps) = MaxStepsBound + 1
    /\ \E e \in {ret[1].frame.genLog[k] : k \in 1..Len(ret[1].frame.genLog)} : e.fail
    /\ \E e \in {ret[1].frame.execLog[k] : k \in 1..Len(ret[1].frame.execLog)} :
          e.err.isErr

\* The answers of the final_answer calls of a batch.
FinalAnswersOf(tcs) ==
    {tcs[k].Arguments.answer :
        k \in {j \in 1..Len(tcs) : tcs[j].Name = "final_answer"}}

\* The first model response of the run invokes final_answer with the
\* non-empty answer v: every final_answer call of the batch carries v (tool
\* variant); the code contains a final_answer call and the executor ran it
\* without error and returned v (code variant).
FirstInvokesFinal(f, v) ==
    LET block == RunBlock(f.agent)
        first == block[2]
    IN /\ v \notin {NIL, ABSENT}
       /\ Len(block) >= 2
       /\ IsAction(first)
       /\ first.StepNumber = 1
       /\ IF variant[f.agent] = "tool"
          THEN FinalAnswersOf(first.ToolCalls) = {v}
          ELSE /\ isFinalAnswer(first.CodeAction)
               /\ Len(f.execLog) >= 1
               /\ f.execLog[1].step = 1
               /\ ~f.execLog[1].err.isErr
               /\ f.execLog[1].result = v

\* C2: with Reset=true and MaxSteps >= 1, when the first model response
\* invokes final_answer with a non-empty answer, Run returns State "success"
\* with that answer as Output, the history is exactly Task, one final Action
\* step, one FinalAnswer step, and Generate was called once.
C2_ImmediateFinalAnswer ==
    \A t \in Threads : \A v \in {"a", "b", "42"} :
        LET f == ret[t].frame
            res == ret[t].result
        IN (Returned(t) /\ f.Reset /\ f.MaxSteps >= 1 /\ FirstInvokesFinal(f, v))
           => /\ ~res.isNil
              /\ ~ret[t].err.isErr
              /\ res.State = "success"
              /\ res.Output = v
              /\ Len(res.Steps) = 3
              /\ res.Steps[1] = TaskStep(f.task)
              /\ IsFinalAction(res.Steps[2])
              /\ res.Steps[3] = FinalAnswerStep(v)
              /\ Len(f.genLog) = 1

\* A code-variant run whose first response called final_answer(42).
C2_Witness ==
    /\ Returned(1)
    /\ variant["A"] = "code"
    /\ ret[1].frame.Reset
    /\ ret[1].frame.MaxSteps = MaxStepsBound
    /\ FirstInvokesFinal(ret[1].frame, "42")
    /\ ret[1].result.State = "success"

\* C3: for every run that returns a RunResult, State is "success" exactly
\* when the loop ended on a final step followed by a FinalAnswer step, and
\* State is "max_steps_error" with absent Output exactly when all MaxSteps
\* step numbers were consumed without a final step.
C3_StateMatchesTermination ==
    \A t \in Threads :
        LET f == ret[t].frame
            res == ret[t].result
            endedFinal == /\ f.actionStep.IsFinal
                          /\ res.Steps[Len(res.Steps)].type = "final_answer"
        IN (Returned(t) /\ ~res.isNil)
           => /\ (res.State = "success") <=> endedFinal
              /\ (res.State = "max_steps_error" /\ res.Output = NIL)
                    <=> (~endedFinal /\ f.step > f.MaxSteps)

\* A tool-variant run whose only step called final_answer with a nil answer.
C3_Witness ==
    /\ Returned(1)
    /\ variant["A"] = "tool"
    /\ ret[1].frame.actionStep.IsFinal
    /\ ret[1].result.State = "max_steps_error"

\* The runs on agent a that are between Lock and Unlock, as <<goroutine,
\* depth in its stack>>.
InCritical(a) ==
    {td \in UNION {{<<t, d>> : d \in 1..Len(stack[t])} : t \in Threads} :
        /\ stack[td[1]][td[2]].agent = a
        /\ stack[td[1]][td[2]].pc # "lock"}

\* Each goroutine's steps form one contiguous block.
Contiguous(w) ==
    \A i \in 1..Len(w) : \A k \in i..Len(w) :
        w[i] = w[k] => \A j \in i..k : w[j] = w[i]

\* C4: for any number of goroutines calling Run on the same agent, at most
\* one is between acquiring and releasing the mutex, the mutex is held
\* exactly then, and the steps each run appends form one contiguous block
\* of the history.
C4_OneRunInFlight ==
    \A a \in Agents :
        /\ Cardinality(InCritical(a)) <= 1
        /\ mu[a] <=> InCritical(a) # {}
        /\ Len(writer[a]) = Len(memory[a].Steps)
        /\ Contiguous(writer[a])

\* Goroutine 1 is in its last step, holding the lock, while goroutine 2
\* waits for it; the history already holds steps goroutine 1 has added.
C4_Witness ==
    /\ stack[1] # <<>>
    /\ stack[2] # <<>>
    /\ Top(2).pc = "lock"
    /\ Top(1).pc \in {"dispatch", "execute"}
    /\ Top(1).step = MaxStepsBound
    /\ Len(memory["A"].Steps) >= 2

\* C5: if the context is cancelled when the loop reaches the boundary before
\* step k, Run returns (nil, the context's error) at once: Generate is not
\* called for step k, no tool or executor runs, no step is appended and no
\* callback fires.
C5_CancelledAtBoundary ==
    [][\A t \in Threads :
          (/\ stack[t] # <<>>
           /\ Top(t).pc = "loop"
           /\ Top(t).step <= Top(t).MaxSteps
           /\ Top(t).ctx = "caller"
           /\ cancelled[t]
           /\ stack'[t] # stack[t])
          => /\ stack'[t] = SubSeq(stack[t], 1, Len(stack[t]) - 1)
             /\ Returned(t)'
             /\ ret'[t].result.isNil
             /\ ret'[t].err = Err("context canceled")
             /\ memory' = memory
             /\ ret'[t].frame.genLog = Top(t).genLog
             /\ ret'[t].frame.execLog = Top(t).execLog
             /\ ret'[t].frame.fired = Top(t).fired]_vars

\* A run cancelled at the boundary before its last step, one step done.
C5_Witness ==
    /\ Returned(1)
    /\ ret[1].frame.pc = "cancelled"
    /\ ret[1].frame.step = MaxStepsBound
    /\ ret[1].frame.MaxSteps = MaxStepsBound
    /\ Len(ret[1].frame.genLog) = MaxStepsBound - 1
    /\ ret[1].result.isNil

\* C6: when Generate fails at step k the run goes on: exactly one Action step
\* numbered k is appended, carrying the error and no model output, tool
\* calls, observations or final flag; no tool or executor runs for that
\* step; and the loop is at step k+1 or has ended.
C6_ModelFailureCostsAStep ==
    \A f \in Holding \cup Finished :
        \A n \in 1..Len(f.genLog) :
            LET k == f.genLog[n].step
                block == RunBlock(f.agent)
            IN f.genLog[n].fail
               => /\ Len(block) >= k + 1
                  /\ block[k + 1].Error.isErr
                  /\ block[k + 1] =
                        [NewActionStep(k) EXCEPT !.Error = block[k + 1].Error]
                  /\ \A j \in 2..Len(block) :
                        (IsAction(block[j]) /\ block[j].StepNumber = k) => j = k + 1
                  /\ Len(ExecsOf(f, k)) = 0
                  /\ f.step > k
                  /\ f.pc \in {"loop", "generate", "dispatch", "calling", "called",
                               "execute", "endstep", "done", "cancelled"}
                  /\ (f.pc = "done" /\ f.step = k + 1 /\ k = f.MaxSteps)
                        => \E t \in Threads :
                              /\ Returned(t)
                              /\ ret[t].frame = f
                              /\ ret[t].result.State = "max_steps_error"

\* A run whose last step was a model failure and which ended exhausted.
C6_Witness ==
    /\ Returned(1)
    /\ ret[1].frame.pc = "done"
    /\ ret[1].frame.MaxSteps = MaxStepsBound
    /\ Len(ret[1].frame.genLog) = MaxStepsBound
    /\ ret[1].frame.genLog[MaxStepsBound].fail
    /\ ret[1].result.State = "max_steps_error"

\* Whether executeTool fails for a call that names no managed agent: the
\* name is not registered, or the tool's Execute returns an error.
CallFails(a, tc) ==
    \/ tc.Name \notin DOMAIN tools[a]
    \/ ToolExecute(tools[a][tc.Name], tc.Arguments).err.isErr

FailureText(a, tc) ==
    IF tc.Name \notin DOMAIN tools[a] THEN "unknown tool: " \o tc.Name
    ELSE ToolExecute(tools[a][tc.Name], tc.Arguments).err.msg

\* C7: in a tool-calling step a call that fails (unknown tool, or Execute
\* returns an error) contributes the one observation line "Error executing
\* <name>: <msg>"; every call of the batch is dispatched, each giving one
\* line; the step's Error stays unset and the run continues.
C7_FailedCallIsOneObservation ==
    \A f \in Holding \cup Finished :
        LET a == f.agent
            block == RunBlock(a)
        IN \A j \in 2..Len(block) :
              LET s == block[j]
                  n == Len(s.ToolCalls)
                  ex == ExecsOf(f, s.StepNumber)
                  line(i) ==
                      IF s.ToolCalls[i].Name \notin managedAgents[a]
                         /\ CallFails(a, s.ToolCalls[i])
                      THEN "Error executing " \o s.ToolCalls[i].Name \o ": "
                              \o FailureText(a, s.ToolCalls[i])
                      ELSE IF ex[i].err.isErr
                      THEN "Error executing " \o s.ToolCalls[i].Name \o ": "
                              \o ex[i].err.msg
                      ELSE FmtV(ex[i].result)
              IN (variant[a] = "tool" /\ IsAction(s) /\ n > 0)
                 => /\ Len(ex) = n
                    /\ s.Observations = Join([i \in 1..n |-> line(i)], "\n")
                    /\ ~s.Error.isErr
                    /\ f.step > s.StepNumber \/ f.pc = "done"

\* A step whose first call named an unknown tool and whose second call, a
\* registered tool, was still run.
C7_Witness ==
    /\ stack[1] # <<>>
    /\ Top(1).agent = "A"
    /\ Top(1).pc = "loop"
    /\ Top(1).step = 2
    /\ Len(RunBlock("A")) = 2
    /\ RunBlock("A")[2].ToolCalls = <<UnknownCall, CalcCall("1+1")>>
    /\ RunBlock("A")[2].Observations = "Error executing nope: unknown tool: nope\n2"

\* ------------------------------------------------ claims on the executors
\* Claim C8: for both executors, once select has taken the timer case
\* (the timer fired before the child's completion was received) Execute
\* has returned exactly (nil output, empty logs, the timeout error), and
\* the completion the goroutine offers afterwards is never received.
C8_TimeoutDiscardsLateResult ==
    via = "timeout" =>
        /\ epc = "returned"
        /\ out.output = NIL
        /\ out.logs = ""
        /\ out.err = TimeoutResult(executor).err
        /\ runner # "sent"

\* A child that had produced output completes after Execute returned the
\* timeout triple.
C8_Witness ==
    /\ via = "timeout"
    /\ epc = "returned"
    /\ out = TimeoutResult(executor)
    /\ stdout # ""
    /\ runner = "sending"

\* The goroutine of done <- cmd.Run() can never finish: it is at its
\* send and the only receiver, Execute, is gone.
BlockedForever == runner = "sending" /\ epc # "select"

\* Claim C9: after a timeout return the child process is not left
\* running (it has been forcibly terminated and reaped) and the goroutine
\* that waited for it is not left blocked forever.
C9_TimeoutKillsAndReaps ==
    (via = "timeout" /\ epc = "returned") =>
        /\ child # "running"
        /\ ~BlockedForever

\* The lines of the captured standard output; the newline that ends the
\* last line starts no further line.
StdoutLines ==
    LET ls == Split(stdout, "\n")
    IN IF ls[Len(ls)] = "" THEN SubSeq(ls, 1, Len(ls) - 1) ELSE ls

NonEmptyLines(ls) == SelectSeq(ls, LAMBDA l : TrimSpace(l) # "")

\* The position in ls of its last non-empty line, 0 when it has none.
LastNonEmpty(ls) ==
    LET ks == {k \in 1..Len(ls) : TrimSpace(ls[k]) # ""}
    IN IF ks = {} THEN 0 ELSE CHOOSE k \in ks : \A j \in ks : j <= k

\* The value the user code last passed to final_answer, "none" when it
\* never calls it.
LastFinalAnswer ==
    LET ks == {k \in 1..Len(userCode) : userCode[k].op = "final_answer"}
    IN IF ks = {} THEN "none"
       ELSE userCode[CHOOSE k \in ks : \A j \in ks : j <= k].arg

PrintsSentinel ==
    \E k \in 1..Len(userCode) :
        userCode[k].op = "print" /\ HasPrefix(userCode[k].arg, SENTINEL)

FirstAt(s, sub, from) ==
    LET ps == {i \in from..Len(s) : At(s, i, sub)}
    IN IF ps = {} THEN 0 ELSE CHOOSE i \in ps : \A j \in ps : i <= j

\* The text from position from up to the first close, or to the end.
Upto(s, from, close) ==
    LET j == FirstAt(s, close, from)
    IN IF from > Len(s) THEN ""
       ELSE SubSeq(s, from, (IF j = 0 THEN Len(s) + 1 ELSE j) - 1)

\* What stands between the first <code> and its closing tag, if any.
TagContent(s) == Upto(s, FirstAt(s, "<code>", 1) + 6, "</code>")

\* What stands in the first fenced block, its language tag and the
\* newline after it left out.
FenceContent(s) ==
    LET a == FirstAt(s, FENCE, 1) + 3
        b == IF At(s, a, "python") THEN a + 6
             ELSE IF At(s, a, "py") THEN a + 2 ELSE a
        c == IF At(s, b, "\n") THEN b + 1 ELSE b
    IN Upto(s, c, FENCE)

\* Claim C11: parseCodeBlock returns the trimmed content of the <code>
\* pattern (closing tag optional) when that content is not blank, else the
\* trimmed content of the fenced pattern when that is not blank, else the
\* empty string: <code>print(1)</code> and the cut-off <code>print(1) both
\* give print(1), a blank <code> block falls through to a fenced block,
\* and text without delimiters gives the empty string.
C11_FirstNonEmptyPatternWins ==
    lastOp.op = "parseCodeBlock" =>
        LET t == modelText
            hasTag == FirstAt(t, "<code>", 1) > 0
            hasFence == FirstAt(t, FENCE, 1) > 0
            tag == IF hasTag THEN TrimSpace(TagContent(t)) ELSE ""
            fence == IF hasFence THEN TrimSpace(FenceContent(t)) ELSE ""
        IN /\ lastOp.out = (IF tag # "" THEN tag ELSE fence)
           /\ t \in {"<code>print(1)</code>", "<code>print(1)"}
                 => lastOp.out = "print(1)"
           /\ (~hasTag /\ ~hasFence) => lastOp.out = ""

\* An empty <code> block before a fenced block: the fenced code is returned.
C11_Witness ==
    /\ lastOp.op = "parseCodeBlock"
    /\ modelText = "<code></code>" \o FENCE \o "print(1)"
    /\ lastOp.out = "print(1)"

\* The renderings of the first n steps, one after the other.
RECURSIVE Renderings(_, _)
Renderings(steps, n) ==
    IF n = 0 THEN <<>> ELSE Renderings(steps, n - 1) \o StepToMessages(steps[n])

\* Claim C12: Memory.ToMessages returns the system message carrying
\* SystemPrompt followed by each step's own messages in step order, leaves
\* the memory as it was, and returns the same sequence when called again
\* with no AddStep or Reset in between.
C12_ToMessagesIsPure ==
    lastOp.op = "ToMessages" =>
        /\ lastOp.out = <<Msg("system", mem.SystemPrompt)>>
                           \o Renderings(mem.Steps, Len(mem.Steps))
        /\ mem = lastOp.before
        /\ prevOp.op = "ToMessages" => prevOp.out = lastOp.out

\* ToMessages was called twice in a row on a history of two steps that
\* render to several messages.
C12_Witness ==
    /\ lastOp.op = "ToMessages"
    /\ prevOp.op = "ToMessages"
    /\ Len(mem.Steps) = 2
    /\ mem.Steps[1].type = "planning"
    /\ Len(lastOp.out) >= 5

\* Claim C13: after any AddStep and Reset calls, Reset leaves SystemPrompt
\* unchanged and empties the steps: ToMessages right after Reset is exactly
\* the one system message that headed ToMessages before it.
C13_ResetKeepsSystemPrompt ==
    lastOp.op = "Reset" =>
        /\ mem.SystemPrompt = lastOp.before.SystemPrompt
        /\ mem.Steps = <<>>
        /\ ToMessages(mem) = <<Head(ToMessages(lastOp.before))>>
        /\ Head(ToMessages(mem)) = Msg("system", lastOp.before.SystemPrompt)

\* A Reset of a memory that held a prompt and two steps.
C13_Witness ==
    /\ lastOp.op = "Reset"
    /\ Len(lastOp.before.Steps) = 2
    /\ lastOp.before.SystemPrompt # ""
    /\ Len(ToMessages(lastOp.before)) > 1

\* The four messages an Action step can render to, in their fixed order,
\* each with whether its field is present.
Candidates(step) ==
    <<[present |-> step.ModelOutput # "",
       msg |-> Msg("assistant", step.ModelOutput)],
      [present |-> step.ToolCalls # <<>>,
       msg |-> Msg("assistant", FormatToolCalls(step.ToolCalls))],
      [present |-> step.Observations # "",
       msg |-> Msg("user", "Observation:\n" \o step.Observations)],
      [present |-> step.Error # NoErr,
       msg |-> Msg("user", "Error:\n" \o step.Error.msg
                           \o "\nPlease try again or use another approach.")]>>

\* Claim C14: for each combination of model text, tool calls, observations
\* and error being present, ActionStep.ToMessages returns exactly one
\* message per present field and no other, in the order assistant text,
\* assistant tool calls, user Observation, user Error: none present gives
\* no message, all four give four.
C14_OneMessagePerPresentField ==
    lastOp.op = "ActionStep.ToMessages" =>
        LET present == SelectSeq(Candidates(lastOp.step), LAMBDA c : c.present)
        IN /\ Len(lastOp.out) = Len(present)
           /\ \A i \in 1..Len(present) : lastOp.out[i] = present[i].msg

\* An Action step with all four fields rendered to four messages.
C14_Witness ==
    /\ lastOp.op = "ActionStep.ToMessages"
    /\ \A i \in 1..4 : Candidates(lastOp.step)[i].present
    /\ Len(lastOp.out) = 4
    /\ lastOp.out[3].Role = "user"

\* The usage an Action or Planning step carries counts; nothing else does.
Counts(step) ==
    step.type \in {"action", "planning"} /\ step.TokenUsage.present

\* The sum of one token field over the first n steps that count.
RECURSIVE TokenSum(_, _, _)
TokenSum(steps, n, field) ==
    IF n = 0 THEN 0
    ELSE TokenSum(steps, n - 1, field)
         + (IF Counts(steps[n]) THEN steps[n].TokenUsage[field] ELSE 0)

UsageOf(steps) ==
    [InputTokens |-> TokenSum(steps, Len(steps), "InputTokens"),
     OutputTokens |-> TokenSum(steps, Len(steps), "OutputTokens")]

\* Claim C15: Memory.TotalTokens is the field-wise sum of InputTokens and
\* OutputTokens over exactly the Action and Planning steps that carry
\* usage (Task steps, FinalAnswer steps and steps without usage add
\* nothing), and the RunResult built at the end of a run carries this sum
\* over the whole history.
C15_TotalTokensIsTheSum ==
    /\ lastOp.op = "TotalTokens" => lastOp.out = UsageOf(mem.Steps)
    /\ lastOp.op = "RunResult" =>
          /\ lastOp.out.Steps = mem.Steps
          /\ lastOp.out.TokenUsage = UsageOf(mem.Steps)

\* TotalTokens of a history holding a Planning and an Action step, both
\* with usage.
C15_Witness ==
    /\ lastOp.op = "TotalTokens"
    /\ Len(mem.Steps) = 2
    /\ mem.Steps[1].type = "planning"
    /\ mem.Steps[2].type = "action"
    /\ lastOp.out = [InputTokens |-> 4, OutputTokens |-> 7]

\* ------------------------------------------------ claims on Run's options
\* The run was started with WithReset(false).
Keeps(f) == \E k \in 1..Len(f.opts) : f.opts[k] = WithReset(FALSE)

\* The run was started with no WithReset option.
NoResetOption(f) == \A k \in 1..Len(f.opts) : f.opts[k].set # "Reset"

\* steps are the steps of one run on task: its Task step, then Action steps
\* numbered from 1, then at most one FinalAnswer step, which is the last.
OneRun(steps, task) ==
    /\ steps # <<>>
    /\ steps[1] = TaskStep(task)
    /\ \A k \in 2..Len(steps) :
          \/ steps[k].type = "action" /\ steps[k].StepNumber = k - 1
          \/ steps[k].type = "final_answer" /\ k = Len(steps)

\* C16: a run started with WithReset(false) leaves the steps already in the
\* history unchanged and in place and appends its Task step and its own steps
\* after them, and a CodeAgent keeps its execution-state map; a run started
\* without WithReset(false) - in particular with no reset option, where Reset
\* defaults to true - has a history, and a RunResult.Steps, of only its own
\* Task, Action and FinalAnswer steps, and a CodeAgent has a fresh map.
C16_ResetOptionDecidesHistory ==
    /\ \A f \in Holding \cup Finished :
          LET steps == memory[f.agent].Steps
              prior == IF f.agent = "A" THEN PriorSteps ELSE <<>>
          IN /\ NoResetOption(f) => f.Reset
             /\ Keeps(f) =>
                   /\ Len(steps) > Len(prior)
                   /\ SubSeq(steps, 1, Len(prior)) = prior
                   /\ OneRun(SubSeq(steps, Len(prior) + 1, Len(steps)), f.task)
                   /\ execState[f.agent].id = 0
             /\ ~Keeps(f) =>
                   /\ OneRun(steps, f.task)
                   /\ execState[f.agent].id = IF variant[f.agent] = "code" THEN 1 ELSE 0
    /\ \A t \in Threads :
          Returned(t) /\ ~ret[t].result.isNil =>
              ret[t].result.Steps = memory[ret[t].frame.agent].Steps

\* A code-variant run with WithReset(false) that returned a final answer after
\* the three prior steps, and whose map is the one it started with.
C16_Witness ==
    /\ Returned(1)
    /\ variant["A"] = "code"
    /\ Keeps(ret[1].frame)
    /\ ret[1].result.State = "success"
    /\ Len(ret[1].result.Steps) = Len(PriorSteps) + 3
    /\ SubSeq(ret[1].result.Steps, 1, Len(PriorSteps)) = PriorSteps
    /\ execState["A"].id = 0

\* ------------------------------------------------ claims on Run's returns
\* The (RunResult, error) pairs Run has returned: to the callers, and to the
\* executeTool calls that are about to read a nested run's return.
Returns ==
    {[result |-> ret[t].result, err |-> ret[t].err, cancelled |-> cancelled[t],
      ctx |-> ret[t].frame.ctx, pc |-> ret[t].frame.pc] :
        t \in {u \in Threads : Returned(u)}}
    \cup UNION {{[result |-> stack[t][d].callRet.result,
                   err |-> stack[t][d].callRet.err,
                   cancelled |-> FALSE, ctx |-> "bg", pc |-> "done"] :
                      d \in {e \in 1..Len(stack[t]) : stack[t][e].pc = "called"}} :
                  t \in Threads}

\* C17: every return of Run has exactly one of (RunResult, error) non-nil; the
\* error is non-nil only when the caller's context was found cancelled at a
\* step boundary, so a run whose context is never cancelled - whatever model
\* failures, unknown tools, tool or nested-agent errors, missing code blocks,
\* executor errors or exhausted budget it met - returns a RunResult and a nil
\* error.
C17_ErrorOnlyOnCancellation ==
    \A r \in Returns :
        /\ r.err.isErr <=> r.result.isNil
        /\ r.err.isErr =>
              /\ r.cancelled
              /\ r.ctx = "caller"
              /\ r.pc = "cancelled"
              /\ r.err = Err("context canceled")
        /\ ~r.cancelled => ~r.result.isNil /\ ~r.err.isErr

\* A run never cancelled that met a model failure, an unknown tool and a
\* nested run, and returned a RunResult with a nil error.
C17_Witness ==
    /\ Returned(1)
    /\ ~cancelled[1]
    /\ ~ret[1].result.isNil
    /\ ~ret[1].err.isErr
    /\ \E k \in 1..Len(ret[1].frame.genLog) : ret[1].frame.genLog[k].fail
    /\ \E k \in 1..Len(ret[1].frame.execLog) :
          ret[1].frame.execLog[k].err = Err("unknown tool: nope")
    /\ \E k \in 1..Len(ret[1].frame.execLog) :
          ret[1].frame.execLog[k].ran = "agent:B"

\* ------------------------------------------------- claims on executeTool
\* C18: executeTool looks the call's name up among the managed agents first
\* and in the tool registry second.  A name that is a managed agent - also
\* when a tool is registered under it - starts that agent's Run and calls no
\* tool's Execute, and the call is completed by that run's return; a name that
\* is only a registered tool has that tool's Execute called once with the
\* call's arguments; any other name fails with "unknown tool: <name>" and
\* nothing is executed.
C18_AgentsBeforeRegistry ==
    [][\A t \in Threads :
          (stack[t] # <<>> /\ stack'[t] # stack[t]) =>
              LET n == Len(stack[t])
                  f == stack[t][n]
                  a == f.agent
                  g == stack'[t][n]
                  tc == f.actionStep.ToolCalls[f.i]
              IN /\ f.pc = "dispatch" /\ tc.Name \in managedAgents[a] =>
                      /\ Len(stack'[t]) = n + 1
                      /\ stack'[t][n + 1].agent = tc.Name
                      /\ stack'[t][n + 1].pc = "lock"
                      /\ g.pc = "calling"
                      /\ g.execLog = f.execLog
                 /\ f.pc = "called" =>
                      /\ tc.Name \in managedAgents[a]
                      /\ Len(g.execLog) = Len(f.execLog) + 1
                      /\ g.execLog[Len(g.execLog)].ran = "agent:" \o tc.Name
                 /\ (/\ f.pc = "dispatch"
                     /\ tc.Name \notin managedAgents[a]
                     /\ tc.Name \in DOMAIN tools[a]) =>
                      /\ Len(stack'[t]) = n
                      /\ g.execLog =
                           Append(f.execLog,
                                  [step |-> f.step, ran |-> "tool:" \o tc.Name,
                                   result |-> ToolExecute(tools[a][tc.Name],
                                                          tc.Arguments).result,
                                   err |-> ToolExecute(tools[a][tc.Name],
                                                       tc.Arguments).err])
                 /\ (/\ f.pc = "dispatch"
                     /\ tc.Name \notin managedAgents[a]
                     /\ tc.Name \notin DOMAIN tools[a]) =>
                      /\ Len(stack'[t]) = n
                      /\ g.execLog =
                           Append(f.execLog,
                                  [step |-> f.step, ran |-> "none", result |-> NIL,
                                   err |-> Err("unknown tool: " \o tc.Name)])]_vars

\* A returned run of an agent that has both a managed agent and a tool named
\* "B", which called B, the calculator and an unregistered name.
C18_Witness ==
    /\ Returned(1)
    /\ "B" \in managedAgents["A"]
    /\ "B" \in DOMAIN tools["A"]
    /\ LET ran == {ret[1].frame.execLog[k].ran : k \in 1..Len(ret[1].frame.execLog)}
       IN /\ "agent:B" \in ran
          /\ "tool:calculator" \in ran
          /\ "none" \in ran
          /\ "tool:B" \notin ran

\* C19: a call to a managed agent runs that agent's Run to completion before
\* the parent's step goes on - the parent's activation does not move while
\* the nested run is on top of it - and the nested run's output becomes the
\* call's result; a nested run that failed, in particular one that ended
\* without a final answer, gives the call an error and the observation
\* "Error executing <name>: ...", not a successful result.
C19_NestedFailureIsToolError ==
    [][\A t \in Threads :
          (stack[t] # <<>> /\ stack'[t] # stack[t]) =>
              LET n == Len(stack[t])
                  f == stack[t][n]
                  g == stack'[t][n]
                  tc == f.actionStep.ToolCalls[f.i]
                  cr == f.callRet
                  entry == g.execLog[Len(g.execLog)]
                  line == g.observations[Len(g.observations)]
              IN /\ \A d \in 1..(n - 1) :
                        Len(stack'[t]) >= n => stack'[t][d] = stack[t][d]
                 /\ (f.pc = "called" /\ ~cr.err.isErr
                       /\ cr.result.State = "success") =>
                        /\ entry.result = cr.result.Output
                        /\ ~entry.err.isErr
                        /\ line = FmtV(cr.result.Output)
                 /\ (f.pc = "called"
                       /\ (cr.err.isErr \/ cr.result.State # "success")) =>
                        /\ entry.err.isErr
                        /\ HasPrefix(line, "Error executing " \o tc.Name \o ": ")]_vars

\* executeTool is about to read the return of a nested run that used up its
\* steps without a final answer.
C19_Witness ==
    \E t \in Threads :
        /\ stack[t] # <<>>
        /\ Top(t).pc = "called"
        /\ ~Top(t).callRet.err.isErr
        /\ Top(t).callRet.result.State = "max_steps_error"
        /\ Top(t).callRet.result.Output = NIL

\* ----------------------------------------------- claims on ToolRegistry
\* The names registered so far.
RegisteredNames == {regLog[k].name : k \in 1..Len(regLog)}

\* The tool of the last Register call made with the name.
LatestOf(name) ==
    LET k == CHOOSE k \in 1..Len(regLog) :
                /\ regLog[k].name = name
                /\ \A j \in (k + 1)..Len(regLog) : regLog[j].name # name
    IN regLog[k].kind

\* C20: after any sequence of Register calls, Get(name) returns the tool most
\* recently registered under the name - a user tool named "final_answer"
\* replaces the built-in one - Get of a name never registered reports
\* not-found, and All and Names hold exactly one entry for each distinct
\* registered name.
C20_LastRegistrationWins ==
    /\ \A name \in LookupNames :
          Get(registry, name) =
              IF name \in RegisteredNames
              THEN [tool |-> LatestOf(name), ok |-> TRUE]
              ELSE [tool |-> NIL, ok |-> FALSE]
    /\ lastOp.op = "Get" =>
          /\ lastOp.out.ok <=> lastOp.name \in RegisteredNames
          /\ lastOp.out.ok => lastOp.out.tool = LatestOf(lastOp.name)
          /\ ~lastOp.out.ok => lastOp.out.tool = NIL
    /\ lastOp.op = "All" =>
          /\ DOMAIN lastOp.out = RegisteredNames
          /\ \A name \in RegisteredNames : lastOp.out[name] = LatestOf(name)
    /\ lastOp.op = "Names" =>
          /\ Len(lastOp.out) = Cardinality(RegisteredNames)
          /\ {lastOp.out[k] : k \in 1..Len(lastOp.out)} = RegisteredNames

\* The agent's registry after a user tool named "final_answer", two
\* calculators and a search tool were registered: Get("final_answer") returns
\* the user tool.
C20_Witness ==
    /\ Len(regLog) = MaxRegs
    /\ regLog[1] = [name |-> "final_answer", kind |-> "FinalAnswerTool"]
    /\ regLog[2] = [name |-> "final_answer", kind |-> "FuncTool"]
    /\ regLog[3].name = "calculator"
    /\ regLog[4].name = "search"
    /\ lastOp.op = "Get"
    /\ lastOp.name = "final_answer"
    /\ lastOp.out = [tool |-> "FuncTool", ok |-> TRUE]

\* ------------------------------------------- claims on the two executors
\* What the child of executor e has written and how it ended once it has run
\* the whole wrapped code, statement by statement as ChildStep and ChildExit do;
\* "hang" when it never ends.
RECURSIVE ScriptRun(_, _, _, _, _)
ScriptRun(e, script, k, answer, printed) ==
    IF k > Len(script)
    THEN IF answer = "None"
         THEN [stdout |-> printed, stderr |-> "", exit |-> "exit0"]
         ELSE IF IsSerializable(answer)
         THEN [stdout |-> printed \o SENTINEL \o JsonDumps(answer) \o "\n",
               stderr |-> "", exit |-> "exit0"]
         ELSE IF e = "python"
         THEN [stdout |-> printed \o SENTINEL \o JsonDumpsStr(answer) \o "\n",
               stderr |-> "", exit |-> "exit0"]
         ELSE [stdout |-> printed, stderr |-> "Traceback", exit |-> "exit1"]
    ELSE CASE script[k].op = "print" ->
                ScriptRun(e, script, k + 1, answer, printed \o script[k].arg \o "\n")
           [] script[k].op = "final_answer" ->
                ScriptRun(e, script, k + 1, script[k].arg,
                          printed \o FinalAnswerPrints(e, script[k].arg))
           [] script[k].op = "raise" ->
                [stdout |-> printed, stderr |-> "Traceback", exit |-> "exit1"]
           [] script[k].op = "hang" ->
                [stdout |-> printed, stderr |-> "", exit |-> "hang"]

\* What Execute of executor e returns for the script when select takes the
\* case named by taken and the child, if it could start, ran to its end.
Outcome(e, script, canStart, taken) ==
    LET run == ScriptRun(e, script, 1, "None", "")
        err == IF ~canStart THEN Err("executable file not found")
               ELSE IF run.exit = "exit0" THEN NoErr
               ELSE Err("exit status 1")
    IN IF taken = "timeout" THEN TimeoutResult(e)
       ELSE IF ~canStart
       THEN IF e = "python" THEN PythonResult("", "", err)
            ELSE DockerResult("", "", err)
       ELSE IF e = "python" THEN PythonResult(run.stdout, run.stderr, err)
       ELSE DockerResult(run.stdout, run.stderr, err)

\* The two ways of computing what Execute returns agree: what the executor's
\* steps have produced is what Outcome computes for the same executor.
OutcomeMatchesExecute ==
    epc = "returned" => out = Outcome(executor, userCode, startable, via)

OtherExecutor(e) == IF e = "python" THEN "docker" ELSE "python"

\* C21: the two executors are interchangeable.  Whenever Execute of one has
\* returned for some code, the other returns for that code, on the same case
\* of its select, the same output, the same logs and an error exactly when
\* the first returned one.
C21_ExecutorsInterchangeable ==
    epc = "returned" =>
        LET other == Outcome(OtherExecutor(executor), userCode, startable, via)
        IN /\ out.output = other.output
           /\ out.logs = other.logs
           /\ out.err.isErr = other.err.isErr

\* DockerExecutor has returned for code that called final_answer(42):
\* PythonExecutor's wrapper prints a "Final Answer: 42" line for that code.
C21_Witness ==
    /\ epc = "returned"
    /\ executor = "docker"
    /\ via = "done"
    /\ userCode = <<[op |-> "final_answer", arg |-> "42"]>>
    /\ out = Triple("42", "", NoErr)
    /\ Outcome("python", userCode, startable, via) = Triple("42", "Final Answer: 42", NoErr)

\* ----------------------------------------------------- claims on callbacks
\* The callback invocations a run has made for step number k.
FiredFor(f, k) == SelectSeq(f.fired, LAMBDA c : c[2] = k)

\* The Action steps a run has appended so far.
ActionsOf(f) == SelectSeq(RunBlock(f.agent), IsAction)

\* C22: every Action step a run has appended - a step that only records a
\* model failure or a missing code block included - has had the handlers
\* registered for "action" and for "all" invoked for it, once each and in that
\* order, by the time it is in the history, and so before the next model call.
C22_EveryActionStepFiresCallbacks ==
    \A f \in Holding \cup Finished :
        /\ \A k \in 1..Len(ActionsOf(f)) :
              FiredFor(f, ActionsOf(f)[k].StepNumber) =
                  <<<<"onAction", ActionsOf(f)[k].StepNumber>>,
                    <<"onAll", ActionsOf(f)[k].StepNumber>>>>
        /\ Len(f.fired) = 2 * Len(ActionsOf(f))

\* A code-variant run has appended a step that records a missing code block
\* and is at the next step's model call.
C22_Witness ==
    /\ stack[1] # <<>>
    /\ Top(1).agent = "A"
    /\ variant["A"] = "code"
    /\ Top(1).pc = "generate"
    /\ Top(1).step = 2
    /\ Len(ActionsOf(Top(1))) = 1
    /\ ActionsOf(Top(1))[1].Error = Err("no code block found")
    /\ Top(1).fired = <<>>

\* ------------------------------------------------- claims on cancellation
\* C23: when the caller's context is cancelled while a step is in flight and
\* that step does not turn out final, the step is completed and appended -
\* the run has then appended an Action step for every step number it started -
\* and the run returns the cancellation error and no RunResult.
C23_CancelledInStepReturnsError ==
    \A t \in Threads :
        LET f == ret[t].frame
        IN (/\ Returned(t)
            /\ cancelPoint[t] = "in step"
            /\ ~f.actionStep.IsFinal)
           => /\ Len(ActionsOf(f)) = Len(f.genLog)
              /\ ret[t].result.isNil
              /\ ret[t].err = Err("context canceled")

\* A run of MaxStepsBound steps whose context was cancelled during its last
\* step, after the model had answered, and which has returned.
C23_Witness ==
    /\ Returned(1)
    /\ cancelPoint[1] = "in step"
    /\ ret[1].frame.MaxSteps = MaxStepsBound
    /\ Len(ret[1].frame.genLog) = MaxStepsBound
    /\ ~ret[1].frame.actionStep.IsFinal
    /\ ~ret[1].result.isNil
    /\ ret[1].result.State = "max_steps_error"

\* The handlers registered for type ty or for "all", in registration order.
HandlersFor(ty) ==
    LET regs == SelectSeq(regLog, LAMBDA r : r.stepType \in {ty, "all"})
    IN [k \in 1..Len(regs) |-> regs[k].fn]

\* C24: Trigger on a step of type T invokes the handlers registered for T or
\* for "all", each once and in the order of their registration whichever of
\* the two they were registered under, and no handler of another type.
C24_HandlersInRegistrationOrder ==
    lastOp.op = "Trigger" =>
        lastOp.out =
            [k \in 1..Len(HandlersFor(lastOp.step.type)) |->
                <<HandlersFor(lastOp.step.type)[k], lastOp.step.StepNumber>>]

\* Trigger on an Action step after a handler for "all" and then one for
\* "action" were registered: the later handler was invoked first.
C24_Witness ==
    /\ Len(regLog) >= 2
    /\ regLog[1] = [stepType |-> "all", fn |-> "h1"]
    /\ regLog[2] = [stepType |-> "action", fn |-> "h2"]
    /\ lastOp.op = "Trigger"
    /\ Len(lastOp.out) >= 2
    /\ lastOp.out[1] = <<"h2", lastOp.step.StepNumber>>

\* ---------------------------------------------- claims on the tool batch
\* What the log says was run for a call named name.
RanFor(a, name) ==
    IF name \in managedAgents[a] THEN "agent:" \o name
    ELSE IF name \in DOMAIN tools[a] THEN "tool:" \o name
    ELSE "none"

\* The observation entry of a call named name that returned (result, err).
EntryText(name, result, err) ==
    IF err.isErr THEN "Error executing " \o name \o ": " \o err.msg
    ELSE FmtV(result)

\* The entries e[1..n] joined by newlines.
RECURSIVE NewlineJoined(_, _)
NewlineJoined(e, n) ==
    IF n = 0 THEN ""
    ELSE IF n = 1 THEN e[1]
    ELSE NewlineJoined(e, n - 1) \o "\n" \o e[n]

\* C25: a step whose response carries the calls c1..cn dispatches each of
\* them once, one after the other in that order - while the batch is under
\* way exactly the calls before the current one have been dispatched - and
\* its Observations is the newline-join of n entries, the i-th being the
\* result text or "Error executing <name>: <msg>" of ci.
C25_BatchInOrderOncePerCall ==
    \A f \in Holding \cup Finished :
        LET a == f.agent
            block == RunBlock(a)
        IN /\ \A j \in 2..Len(block) :
                 LET s == block[j]
                     n == Len(s.ToolCalls)
                     ex == ExecsOf(f, s.StepNumber)
                 IN (variant[a] = "tool" /\ IsAction(s) /\ n > 0)
                    => /\ Len(ex) = n
                       /\ \A i \in 1..n : ex[i].ran = RanFor(a, s.ToolCalls[i].Name)
                       /\ s.Observations =
                             NewlineJoined(
                                 [i \in 1..n |->
                                     EntryText(s.ToolCalls[i].Name,
                                               ex[i].result, ex[i].err)], n)
           /\ f.pc \in {"dispatch", "calling", "called"}
                 => /\ Len(ExecsOf(f, f.step)) = f.i - 1
                    /\ Len(f.observations) = f.i - 1
                    /\ \A i \in 1..(f.i - 1) :
                          /\ ExecsOf(f, f.step)[i].ran =
                                RanFor(a, f.actionStep.ToolCalls[i].Name)
                          /\ f.observations[i] =
                                EntryText(f.actionStep.ToolCalls[i].Name,
                                          ExecsOf(f, f.step)[i].result,
                                          ExecsOf(f, f.step)[i].err)

\* A completed step with the batch (calculator 1/0, calculator 1+1): the
\* failing call's entry comes first, the result of the second call after it.
C25_Witness ==
    /\ stack[1] # <<>>
    /\ Top(1).agent = "A"
    /\ Top(1).pc = "loop"
    /\ Len(RunBlock("A")) = 2
    /\ RunBlock("A")[2].ToolCalls = <<CalcCall("1/0"), CalcCall("1+1")>>
    /\ Len(ExecsOf(Top(1), 1)) = 2
    /\ ExecsOf(Top(1), 1)[1].err.isErr
    /\ ExecsOf(Top(1), 1)[2].result = "2"
    /\ HasPrefix(RunBlock("A")[2].Observations, "Error executing calculator: ")

\* The positions of the calls of step s that invoked final_answer and
\* succeeded, ex being the step's executions.
FinalCallsOf(s, ex) ==
    {i \in 1..Len(ex) :
        /\ i <= Len(s.ToolCalls)
        /\ s.ToolCalls[i].Name = "final_answer"
        /\ ~ex[i].err.isErr}

Largest(S) == CHOOSE i \in S : \A j \in S : j <= i

EndsAt(f, block, j) ==
    /\ block[j].IsFinal
    /\ Len(block) = j + 1
    /\ block[j + 1].type = "final_answer"
    /\ f.pc = "done"

\* C27 as stated: whenever the batch of a completed tool-calling step holds a
\* call to final_answer, the step is final, a FinalAnswer step is appended
\* and the loop ends after the step.
C27_AnyFinalAnswerCallEndsRun ==
    \A f \in Holding \cup Finished :
        LET a == f.agent
            block == RunBlock(a)
        IN \A j \in 2..Len(block) :
              (/\ variant[a] = "tool"
               /\ IsAction(block[j])
               /\ \E i \in 1..Len(block[j].ToolCalls) :
                     block[j].ToolCalls[i].Name = "final_answer")
              => EndsAt(f, block, j)

\* C27 amended: a completed tool-calling step is final, is followed by a
\* FinalAnswer step and ends the loop exactly when one of its final_answer
\* calls returned without an error; a step whose final_answer calls all
\* failed is not final, no FinalAnswer step follows it and the loop goes on
\* to the next step number.
C27_SucceedingFinalAnswerEndsRun ==
    \A f \in Holding \cup Finished :
        LET a == f.agent
            block == RunBlock(a)
        IN \A j \in 2..Len(block) :
              LET s == block[j]
                  ex == ExecsOf(f, s.StepNumber)
              IN (variant[a] = "tool" /\ IsAction(s))
                 => IF FinalCallsOf(s, ex) # {}
                    THEN EndsAt(f, block, j)
                    ELSE /\ ~s.IsFinal
                         /\ j < Len(block) => IsAction(block[j + 1])
                         /\ f.step > s.StepNumber

\* A returned run whose first step called final_answer without an answer and
\* was not final, and whose second step called final_answer("a") and was.
C27_Witness ==
    /\ Returned(1)
    /\ Len(RunBlock("A")) = 4
    /\ RunBlock("A")[2].ToolCalls = <<FinalCall(ABSENT)>>
    /\ ~RunBlock("A")[2].IsFinal
    /\ RunBlock("A")[2].Observations =
          "Error executing final_answer: missing required argument: answer"
    /\ RunBlock("A")[3].ToolCalls = <<FinalCall("a")>>
    /\ RunBlock("A")[3].IsFinal
    /\ RunBlock("A")[4] = FinalAnswerStep("a")

\* ------------------------------------------ claims on the mutex of Run
\* The run at depth d of goroutine t waits for a mutex that a run beneath it
\* in the same stack holds: that run goes on only after this one returns.
WaitsForOwnCaller(t, d) ==
    /\ stack[t][d].pc = "lock"
    /\ \E e \in 1..(d - 1) :
          /\ stack[t][e].agent = stack[t][d].agent
          /\ stack[t][e].pc # "lock"

\* C28: with a cyclic management graph the nested Run calls start and the
\* recursion goes on: no run is ever left waiting for a mutex that one of
\* its own callers holds, so that the outer run is not blocked for ever.
C28_CycleRecursesWithoutBlocking ==
    \A t \in Threads : \A d \in 1..Len(stack[t]) : ~WaitsForOwnCaller(t, d)

\* A's run called B, B's run called A again, and that third Run is at
\* a.mu.Lock() while the first still holds A's mutex.
C28_Witness ==
    /\ Len(stack[1]) = 3
    /\ stack[1][1].agent = "A"
    /\ stack[1][1].pc = "calling"
    /\ stack[1][2].agent = "B"
    /\ stack[1][2].pc = "calling"
    /\ stack[1][3].agent = "A"
    /\ stack[1][3].pc = "lock"
    /\ mu["A"]
    /\ ~ENABLED Lock(1)

\* C29: every way Run returns - with a final answer, with the budget used up,
\* or with the cancellation error - releases the agent's mutex, so the mutex
\* is held exactly while a run is between Lock and its return; a call made
\* while another run holds the mutex is never turned away with an error (the
\* only error Run returns is its own context's cancellation); and every call
\* that was started gets the mutex and returns.
C29_EveryExitUnlocks ==
    /\ [](\A a \in Agents : mu[a] <=> InCritical(a) # {})
    /\ [][\A t \in Threads :
             (stack[t] # <<>> /\ stack'[t] = <<>>) =>
                 /\ Returned(t)'
                 /\ ~mu'[Top(t).agent]
                 /\ ret'[t].frame.pc \in {"done", "cancelled"}
                 /\ ret'[t].err.isErr =>
                       /\ cancelled[t]
                       /\ ret'[t].err = Err("context canceled")]_vars
    /\ \A t \in Threads : (stack[t] # <<>>) ~> Returned(t)

\* Goroutine 1 has returned the cancellation error and goroutine 2, called
\* with WithReset(false), has taken the mutex and appended its Task step
\* after the steps of goroutine 1.
C29_Witness ==
    /\ Returned(1)
    /\ ret[1].frame.pc = "cancelled"
    /\ ret[1].err.isErr
    /\ stack[2] # <<>>
    /\ Top(2).pc \notin {"lock"}
    /\ mu["A"]
    /\ Len(writer["A"]) >= 3
    /\ writer["A"][1] = 1
    /\ writer["A"][Len(writer["A"])] = 2

\* C30: with either executor, when the script has run to its end and the
\* last value it passed to final_answer cannot be JSON-serialized, Execute
\* does not fail: the sentinel line carries the JSON encoding of the value's
\* str, and Execute returns that text as the output with a nil error.
C30_UnserializableAnswerFallsBack ==
    (/\ epc = "returned"
     /\ via = "done"
     /\ ip = Len(userCode) + 1
     /\ finalAnswer # "None"
     /\ ~IsSerializable(finalAnswer)) =>
        /\ ~out.err.isErr
        /\ out.output = finalAnswer
        /\ IndexFrom(stdout, SENTINEL \o JsonDumpsStr(finalAnswer) \o "\n", 1) > 0

\* Execute has returned for a script that ended with final_answer({1}).
C30_Witness ==
    /\ epc = "returned"
    /\ via = "done"
    /\ ip = Len(userCode) + 1
    /\ finalAnswer = "{1}"
    /\ executor = "docker"
    /\ out.err.isErr

\* --------------------------------------------- claims on the code variant
\* The Action step numbered k of a run's block, which is the (k+1)-th step.
StepAt(f, k) == RunBlock(f.agent)[k + 1]

\* C31: in the code variant a model text without a code block never reaches
\* the executor: a run waiting for or past the executor call holds the code
\* parsed from its text, and a step whose model call succeeded with a text
\* that has no code block is in the history as the Action step of that number
\* with the model output, the usage, the error "no code block found", no code,
\* no observations and no final flag; no Execute call was made for it; and
\* the loop stands at the next step number or beyond.
C31_NoCodeBlockSkipsExecutor ==
    \A f \in Holding \cup Finished :
        variant[f.agent] = "code" =>
            /\ f.pc \in {"execute", "endstep"} =>
                  /\ f.actionStep.CodeAction # ""
                  /\ f.actionStep.CodeAction = parseCodeBlock(f.actionStep.ModelOutput)
            /\ \A n \in 1..Len(f.genLog) :
                  LET k == f.genLog[n].step
                  IN (/\ ~f.genLog[n].fail
                      /\ k + 1 <= Len(RunBlock(f.agent))
                      /\ parseCodeBlock(StepAt(f, k).ModelOutput) = "")
                     => /\ StepAt(f, k) =
                              [NewActionStep(k) EXCEPT
                                 !.ModelOutput = StepAt(f, k).ModelOutput,
                                 !.TokenUsage = StepAt(f, k).TokenUsage,
                                 !.Error = Err("no code block found")]
                        /\ StepAt(f, k).ModelOutput \in CodeTexts
                        /\ StepAt(f, k).TokenUsage = Usage(3, 5)
                        /\ ExecsOf(f, k) = <<>>
                        /\ f.step > k
                        /\ k + 2 <= Len(RunBlock(f.agent)) =>
                              /\ IsAction(StepAt(f, k + 1))
                              /\ StepAt(f, k + 1).StepNumber = k + 1
                        /\ k + 1 = Len(RunBlock(f.agent)) =>
                              /\ f.step = k + 1
                              /\ f.pc \in {"loop", "generate", "execute", "endstep",
                                           "done", "cancelled"}

\* A code-variant run recorded a missing code block at step 1 and has handed
\* the code of step 2 to the executor.
C31_Witness ==
    /\ stack[1] # <<>>
    /\ variant["A"] = "code"
    /\ Top(1).agent = "A"
    /\ Top(1).pc = "endstep"
    /\ Top(1).step = 2
    /\ StepAt(Top(1), 1).ModelOutput = "I cannot write code."
    /\ StepAt(Top(1), 1).Error = Err("no code block found")
    /\ Len(Top(1).execLog) = 1

\* The Execute calls a code-variant run has made and whose step is in the
\* history.
RecordedExecs(f) ==
    {n \in 1..Len(f.execLog) :
        /\ f.execLog[n].ran = "executor"
        /\ f.execLog[n].step + 1 <= Len(RunBlock(f.agent))}

\* The RunResult of run f, if it has returned one.
ResultsOf(f) ==
    {ret[t].result : t \in {u \in Threads : Returned(u) /\ ret[u].frame = f}}

\* C32 as stated: a step whose code was handed to the executor is final
\* exactly when the code contains "final_answer(", and then what Execute
\* returned is the run's Output.
C32_FinalIffCodeCallsFinalAnswer ==
    \A f \in Holding \cup Finished :
        variant[f.agent] = "code" =>
            \A n \in RecordedExecs(f) :
                LET e == f.execLog[n]
                    s == StepAt(f, e.step)
                IN /\ s.IsFinal <=> isFinalAnswer(s.CodeAction)
                   /\ s.IsFinal =>
                         /\ f.finalOutput = e.result
                         /\ \A r \in ResultsOf(f) : r.Output = e.result

\* C32 amended: a step whose code was handed to the executor is final exactly
\* when Execute returned no error and the code contains "final_answer(", and
\* then what Execute returned is the output of the FinalAnswer step that
\* follows and the run's Output.
C32_FinalIffNoErrorAndCodeCallsFinalAnswer ==
    \A f \in Holding \cup Finished :
        variant[f.agent] = "code" =>
            \A n \in RecordedExecs(f) :
                LET e == f.execLog[n]
                    s == StepAt(f, e.step)
                    block == RunBlock(f.agent)
                IN /\ s.IsFinal <=> (~e.err.isErr /\ isFinalAnswer(s.CodeAction))
                   /\ s.IsFinal =>
                         /\ f.finalOutput = e.result
                         /\ Len(block) = e.step + 2
                         /\ block[e.step + 2] = FinalAnswerStep(e.result)
                         /\ ResultsOf(f) # {}
                         /\ \A r \in ResultsOf(f) : r.Output = e.result

\* A run has returned 42 from a final step, and its first step ran code that
\* calls final_answer but failed in the executor.
C32_Witness ==
    /\ Returned(1)
    /\ variant["A"] = "code"
    /\ ret[1].result.Output = "42"
    /\ Len(ret[1].frame.execLog) = 2
    /\ ret[1].frame.execLog[1].err.isErr
    /\ isFinalAnswer(StepAt(ret[1].frame, 1).CodeAction)
    /\ ~StepAt(ret[1].frame, 1).IsFinal
    /\ StepAt(ret[1].frame, 2).IsFinal

\* C33: in the code variant, when Execute returns an error, the step is
\* appended as an Action step of that number with that error as its Error and
\* the returned logs as its Observations, not final; the run does not return
\* at that step, and no error other than the caller's cancellation is ever
\* returned from Run: the loop stands at the next step number, or beyond.
C33_ExecutorErrorIsRecordedRunGoesOn ==
    \A f \in Holding \cup Finished :
        variant[f.agent] = "code" =>
            /\ \A n \in RecordedExecs(f) :
                  LET e == f.execLog[n]
                      k == e.step
                      s == StepAt(f, k)
                      block == RunBlock(f.agent)
                  IN e.err.isErr =>
                        /\ IsAction(s)
                        /\ s.StepNumber = k
                        /\ s.Error = e.err
                        /\ s.Observations \in {o.logs : o \in {x \in ExecOutcomes : x.err = e.err}}
                        /\ s.CodeAction = parseCodeBlock(s.ModelOutput)
                        /\ ~s.IsFinal
                        /\ f.step > k
                        /\ k + 2 <= Len(block) =>
                              /\ IsAction(block[k + 2])
                              /\ block[k + 2].StepNumber = k + 1
                        /\ k + 1 = Len(block) =>
                              /\ f.step = k + 1
                              /\ f.pc \in {"loop", "generate", "execute", "endstep",
                                           "done", "cancelled"}
                              /\ f.pc = "done" => k = f.MaxSteps
            /\ \A t \in Threads :
                  (Returned(t) /\ ret[t].frame = f /\ ret[t].err.isErr) =>
                      /\ cancelled[t]
                      /\ ret[t].err = Err("context canceled")

\* A run whose first step timed out in the executor went on and returned 42
\* from its second step.
C33_Witness ==
    /\ Returned(1)
    /\ variant["A"] = "code"
    /\ ~ret[1].err.isErr
    /\ ret[1].result.Output = "42"
    /\ StepAt(ret[1].frame, 1).Error = Err("execution timeout after 30s")
    /\ StepAt(ret[1].frame, 1).Observations = ""
    /\ StepAt(ret[1].frame, 2).IsFinal

\* The Lock step of goroutine t's innermost run: from waiting to the loop.
StartsRun(t) ==
    /\ stack[t] # <<>>
    /\ Top(t).pc = "lock"
    /\ stack'[t] # <<>>
    /\ Len(stack'[t]) = Len(stack[t])
    /\ stack'[t][Len(stack[t])].pc # "lock"

\* C34: every Execute call of one CodeAgent run is given the same map, the
\* one the agent holds during that run, with the same keys; the agent's map
\* is replaced, by an empty map that is none of the earlier ones, exactly by
\* the start of a run with Reset=true, and a run with Reset=false starts with
\* the map the run before it used; no other step of Run replaces the map or
\* adds, changes or removes a key.
C34_OneStateMapPerRun ==
    /\ [](\A f \in Holding \cup Finished :
            variant[f.agent] = "code" =>
                /\ Len(f.stateLog) =
                      Len(SelectSeq(f.execLog, LAMBDA e : e.ran = "executor"))
                /\ \A i, j \in 1..Len(f.stateLog) : f.stateLog[i] = f.stateLog[j]
                /\ f \in Holding =>
                      \A i \in 1..Len(f.stateLog) :
                          f.stateLog[i] = execState[f.agent])
    /\ [][\A a \in Agents :
             LET starts == {t \in Threads : StartsRun(t) /\ Top(t).agent = a}
             IN /\ \A t \in starts :
                      IF Top(t).Reset /\ variant[a] = "code"
                      THEN /\ execState'[a].id > execState[a].id
                           /\ execState'[a].keys = {}
                      ELSE execState'[a] = execState[a]
                /\ starts = {} => execState'[a] = execState[a]]_vars

\* Goroutine 1 ran with a fresh map and returned; goroutine 2, run with
\* Reset=false, has made two Execute calls, both with the map of goroutine 1.
C34_Witness ==
    /\ variant["A"] = "code"
    /\ Returned(1)
    /\ ret[1].frame.Reset
    /\ ret[1].frame.stateLog # <<>>
    /\ stack[2] # <<>>
    /\ ~Top(2).Reset
    /\ Len(Top(2).stateLog) = 2
    /\ Top(2).stateLog[1] = ret[1].frame.stateLog[1]
    /\ Top(2).stateLog[2] = ret[1].frame.stateLog[1]
    /\ execState["A"] = MakeMap(1)

\* ------------------------------------------- claims on the history's shape
\* The shape of the block of a run with budget n: a Task step, Action steps
\* numbered 1, 2, ... in order, at most n of them, and possibly a FinalAnswer
\* step, which is last and follows a final Action step; only the last
\* Action step may be final.
WellShaped(block, n) ==
    /\ Len(block) >= 1
    /\ block[1].type = "task"
    /\ \A j \in 2..Len(block) :
          /\ block[j].type \in {"action", "final_answer"}
          /\ IsAction(block[j]) =>
                /\ block[j].StepNumber = j - 1
                /\ j - 1 <= n
                /\ block[j].IsFinal =>
                      \A i \in (j + 1)..Len(block) : ~IsAction(block[i])
          /\ block[j].type = "final_answer" =>
                /\ j = Len(block)
                /\ j >= 3
                /\ IsFinalAction(block[j - 1])

\* C35: at every point of a run, the steps it has appended are one Task step,
\* then Action steps numbered 1, 2, ..., k in append order with k <= MaxSteps,
\* then at most one FinalAnswer step; the FinalAnswer step comes directly
\* after a final Action step and is the last step, and no Action step before
\* the last one is final.
C35_BlockShape ==
    \A f \in Holding \cup Finished :
        /\ WellShaped(RunBlock(f.agent), f.MaxSteps)
        /\ RunBlock(f.agent)[1] = TaskStep(f.task)
        /\ Len(ActionsOf(f)) <= f.step

\* A run of MaxStepsBound steps has returned: its last step is final and is
\* followed by the FinalAnswer step.
C35_Witness ==
    /\ Returned(1)
    /\ ret[1].frame.MaxSteps = MaxStepsBound
    /\ Len(RunBlock("A")) = MaxStepsBound + 2
    /\ RunBlock("A")[MaxStepsBound + 2].type = "final_answer"
    /\ IsFinalAction(RunBlock("A")[MaxStepsBound + 1])
    /\ ~IsFinalAction(RunBlock("A")[2])

\* C36: a step of Run that changes an agent's history either only appends to
\* it - every step already there stays as it was, at its place - or is the
\* start of a run with Reset=true, which leaves the new Task step alone; the
\* system prompt never changes; and the message sequences one run sends to
\* the model grow by extension: each is a prefix of the next, and the last is
\* a prefix of what the history renders to while the run goes on.
C36_HistoryAppendOnly ==
    /\ [][\A a \in Agents :
             LET resets == {t \in Threads :
                               StartsRun(t) /\ Top(t).agent = a /\ Top(t).Reset}
             IN /\ memory'[a].SystemPrompt = memory[a].SystemPrompt
                /\ resets = {} =>
                      HasPrefix(memory'[a].Steps, memory[a].Steps)
                /\ \A t \in resets :
                      memory'[a].Steps = <<TaskStep(Top(t).task)>>]_vars
    /\ [](\A f \in Holding \cup Finished :
            /\ \A n \in 1..(Len(f.genLog) - 1) :
                  HasPrefix(f.genLog[n + 1].msgs, f.genLog[n].msgs)
            /\ (f \in Holding /\ f.genLog # <<>>) =>
                  HasPrefix(ToMessages(memory[f.agent]),
                            f.genLog[Len(f.genLog)].msgs))

\* A run with Reset=false on a history of three earlier steps has called the
\* model twice: the second message sequence extends the first, which holds
\* the earlier steps' messages.
C36_Witness ==
    /\ stack[1] # <<>>
    /\ Top(1).agent = "A"
    /\ ~Top(1).Reset
    /\ Len(Top(1).genLog) = 2
    /\ Len(Top(1).genLog[2].msgs) > Len(Top(1).genLog[1].msgs)
    /\ Len(Top(1).genLog[1].msgs) > 2
    /\ SubSeq(memory["A"].Steps, 1, Len(PriorSteps)) = PriorSteps

\* ------------------------------------------------ claims on the model calls
\* C37: within one Run the n-th Generate call is the call of step number n -
\* one call per step number reached, none repeated - so there are never more
\* calls than MaxSteps, and none when MaxSteps <= 0; the Action steps the run
\* has appended are as many as its Generate calls, less the one whose step is
\* still under way.
C37_OneGenerateCallPerStep ==
    \A f \in Holding \cup Finished :
        LET calls == Len(f.genLog)
            underWay == f.pc \in {"dispatch", "calling", "called", "execute", "endstep"}
        IN /\ \A n \in 1..calls : f.genLog[n].step = n
           /\ calls <= f.MaxSteps
           /\ f.MaxSteps <= 0 => calls = 0
           /\ Len(ActionsOf(f)) = IF underWay THEN calls - 1 ELSE calls
           /\ f.pc \in {"loop", "cancelled"} => calls = f.step - 1
           /\ f.pc = "done" =>
                 calls = IF f.actionStep.IsFinal /\ calls > 0 THEN f.step ELSE f.step - 1
           /\ f.pc = "generate" => calls = f.step - 1
           /\ underWay => calls = f.step

\* A run of MaxStepsBound steps returned after its model failed at every one.
C37_Witness ==
    /\ Returned(1)
    /\ ret[1].frame.MaxSteps = MaxStepsBound
    /\ Len(ret[1].frame.genLog) = MaxStepsBound
    /\ \A n \in 1..MaxStepsBound : ret[1].frame.genLog[n].fail
    /\ Len(ActionsOf(ret[1].frame)) = MaxStepsBound
    /\ ret[1].result.State = "max_steps_error"

====
